---- MODULE Spec2Model ----
(***************************************************************************)
(* A model of the SLAPENIR credential-sanitizing proxy:                    *)
(*   - the secret map (sanitizer.rs): injection and sanitization as        *)
(*     non-overlapping multi-pattern replacement over byte strings,        *)
(*   - the MITM session loop (connect_full.rs),                            *)
(*   - the certificate authority and certificate cache (tls/ca.rs,         *)
(*     tls/cache.rs) under concurrent get_or_create calls.                 *)
(*                                                                         *)
(* Byte strings are sequences of one-character strings.  "xFF" stands for  *)
(* a byte that never occurs in valid UTF-8; "xEF","xBF","xBD" are the      *)
(* three bytes of U+FFFD, the replacement character.                       *)
(***************************************************************************)
EXTENDS Integers, Sequences, FiniteSets, TLC

\* ------------------------------------------------------------------------
\* Bounds of the model
\* ------------------------------------------------------------------------

\* longest byte string fed to the pure secret-map operations
MaxLen == 4

\* requests one session reads before the client is taken to stop sending
MaxRequests == 2

\* reads that return an incomplete message before its headers are complete
MaxPartialReads == 1

\* tasks sharing one certificate authority and one certificate cache
NumTasks == 2

\* get_or_create calls started in one run, over all tasks
MaxCalls == 2

\* ticks of the clock in one run
MaxTime == 1

\* largest capacity a cache is built with
MaxCapacity == 2

\* chunks each side of a passthrough tunnel sends
MaxChunks == 2

\* longest hostname handed to validate_host
MaxHostLen == 7

\* header lines in a request handed to parse_request
MaxHeaderLines == 2

\* requests a client sends on one decrypted stream
MaxMessages == 2

\* one-byte reads tried by the read loops on long messages
MaxSmallReads == 2

\* ------------------------------------------------------------------------
\* Byte strings
\* ------------------------------------------------------------------------

Min(S) == CHOOSE x \in S : \A y \in S : x <= y

\* all sequences over alphabet A of length at most n
SeqsUpTo(A, n) == UNION { [1..k -> A] : k \in 0..n }

\* p occurs in s starting at index i
OccursAt(p, s, i) ==
    /\ i >= 1
    /\ i + Len(p) - 1 <= Len(s)
    /\ SubSeq(s, i, i + Len(p) - 1) = p

\* str::contains / slice windows().any(): p is a contiguous part of s
Contains(s, p) == \E i \in 1..(Len(s) - Len(p) + 1) : OccursAt(p, s, i)

StartsWith(s, p) == OccursAt(p, s, 1)

EndsWith(s, p) == Len(p) <= Len(s) /\ OccursAt(p, s, Len(s) - Len(p) + 1)

\* The replacement literal of the sanitize direction.
REDACTED == << "[", "R", "E", "D", "A", "C", "T", "E", "D", "]" >>

\* ------------------------------------------------------------------------
\* Multi-pattern search, as AhoCorasickBuilder::new().build(..) provides it:
\* the builder's default match kind (standard semantics), non-overlapping
\* matches, each reported as soon as it is seen.  From position `from` the
\* match reported is the one that ends first; of the patterns ending there
\* the longest one (the automaton state's own pattern precedes the ones
\* inherited over failure links), and of equal patterns the first listed.
\* ------------------------------------------------------------------------

\* the patterns k that match s ending at index e without reaching before `from`
PatternsEndingAt(pats, s, from, e) ==
    { k \in DOMAIN pats :
        /\ Len(pats[k]) >= 1
        /\ e - Len(pats[k]) + 1 >= from
        /\ OccursAt(pats[k], s, e - Len(pats[k]) + 1) }

MatchEnds(pats, s, from) ==
    { e \in from..Len(s) : PatternsEndingAt(pats, s, from, e) # {} }

\* the pattern reported for the match ending at e
ReportedPattern(pats, s, from, e) ==
    LET ks == PatternsEndingAt(pats, s, from, e)
        longest == { k \in ks : \A j \in ks : Len(pats[j]) <= Len(pats[k]) }
    IN  Min(longest)

\* AhoCorasick::replace_all / replace_all_bytes: every match found by
\* find_iter is replaced by replace_with[pattern]; the text between matches
\* is copied; the replacement output is not searched again.
RECURSIVE ReplaceFrom(_, _, _, _)
ReplaceFrom(pats, reps, s, from) ==
    IF MatchEnds(pats, s, from) = {}
    THEN SubSeq(s, from, Len(s))
    ELSE LET e  == Min(MatchEnds(pats, s, from))
             k  == ReportedPattern(pats, s, from, e)
             st == e - Len(pats[k]) + 1
         IN  SubSeq(s, from, st - 1) \o reps[k] \o ReplaceFrom(pats, reps, s, e + 1)

replace_all(pats, reps, s) == ReplaceFrom(pats, reps, s, 1)

\* number of matches find_iter reports
RECURSIVE CountFrom(_, _, _)
CountFrom(pats, s, from) ==
    IF MatchEnds(pats, s, from) = {}
    THEN 0
    ELSE 1 + CountFrom(pats, s, Min(MatchEnds(pats, s, from)) + 1)

\* ------------------------------------------------------------------------
\* SecretMap (sanitizer.rs).  A secret map is a record
\*   [dummy_secrets |-> <<d1,..>>, real_secrets |-> <<r1,..>>]
\* the two sequences aligned, as SecretMap::new builds them from the keys
\* and the values of one HashMap.
\* ------------------------------------------------------------------------

SecretMapOf(dummies, reals) == [dummy_secrets |-> dummies, real_secrets |-> reals]

\* a plausible slip in inject: only the first pair of the map is applied
inject_first_pair_only(M, data) ==
    replace_all(<< M.dummy_secrets[1] >>, << M.real_secrets[1] >>, data)

\* SecretMap::inject
inject(M, data) == replace_all(M.dummy_secrets, M.real_secrets, data)

\* the replacement list both sanitize directions build: one [REDACTED] per real
RedactedList(M) == [k \in DOMAIN M.real_secrets |-> REDACTED]

\* a plausible slip in sanitize: the literal is put in front of each real
\* value instead of in its place
sanitize_marks_only(M, data) ==
    replace_all(M.real_secrets,
                [k \in DOMAIN M.real_secrets |-> REDACTED \o M.real_secrets[k]],
                data)

\* SecretMap::sanitize (text)
sanitize(M, data) == replace_all(M.real_secrets, RedactedList(M), data)

\* a plausible slip in sanitize_bytes: bytes that are not valid UTF-8 are
\* passed through unsanitized (the bypass that fix A removed)
sanitize_bytes_utf8_only(M, data) ==
    IF \E i \in DOMAIN data : data[i] = "xFF"
    THEN data
    ELSE replace_all(M.real_secrets, RedactedList(M), data)

\* SecretMap::sanitize_bytes (raw bytes; real_secrets_bytes are the bytes of
\* real_secrets)
sanitize_bytes(M, data) == replace_all(M.real_secrets, RedactedList(M), data)

\* String::from_utf8_lossy on strings over ASCII and the invalid byte xFF:
\* every invalid byte becomes U+FFFD (EF BF BD), everything else is kept.
RECURSIVE from_utf8_lossy(_)
from_utf8_lossy(b) ==
    IF b = << >>
    THEN << >>
    ELSE (IF Head(b) = "xFF" THEN << "xEF", "xBF", "xBD" >> ELSE << Head(b) >>)
         \o from_utf8_lossy(Tail(b))

\* ------------------------------------------------------------------------
\* State
\* ------------------------------------------------------------------------

VARIABLES
    \* --- pure secret-map operations applied to one input ---
    fn_map,      \* the secret map
    fn_in,       \* the input byte string
    fn_op,       \* which operation was applied ("none" before)
    fn_out,      \* its output
    \* --- one MITM session (tunnel_with_tls_mitm_full's loop) ---
    s_host,      \* hostname extracted from the CONNECT destination
    s_pc,        \* position in the loop
    s_result,    \* "running", or what the function returned
    s_buf,       \* chunks of an incomplete message held in the read buffer
    s_req,       \* the request most recently parsed from the client
    s_upstream,  \* what was written upstream for s_req (NoMsg: nothing)
    s_resp,      \* the response parsed from upstream for s_req
    s_client,    \* what was written to the client for s_req (NoMsg: nothing)
    n_req,       \* requests parsed so far
    n_upstream,  \* requests written upstream so far
    n_client,    \* responses written to the client so far
    \* --- one certificate authority and one certificate cache ---
    max_capacity,   \* CertificateCache.max_capacity
    cache,          \* CertificateCache.cache: hostname -> CacheEntry
    now,            \* the clock (microseconds since some origin)
    SERIAL_COUNTER, \* the static counter of sign_for_host
    minted,         \* every leaf sign_for_host has returned
    t_pc,           \* per task: position inside get_or_create
    t_host,         \* per task: hostname of the call in progress
    t_timestamp,    \* per task: the clock value sign_for_host read (a local: 0 outside the call)
    t_cert,         \* per task: the leaf sign_for_host returned (a local: NoCert outside the call)
    t_ret,          \* per task: what its last get_or_create returned
    t_last,         \* per task: how its last get_or_create ended
    t_calls,        \* per task: get_or_create calls it has started
    \* --- one CONNECT request (handle_connect and the task it spawns) ---
    h_uri,          \* the request URI: [has_authority, authority]
    h_responses,    \* the HTTP statuses sent to the client for this request
    h_connects,     \* calls of TcpStream::connect made
    h_stream,       \* server_stream: "none", "connected", or "failed" when connect returned Err
    h_task,         \* the spawned task: "idle", "upgrading", "tunnel", "ended"
    h_branch,       \* what tunnel() called: "none", "mitm", "passthrough"
    h_tls,          \* TLS was terminated toward the client
    h_logged,       \* the errors the task has logged
    p_c2s,          \* passthrough, client to server: "idle", "copying", "ok", "err"
    p_s2c,          \* passthrough, server to client: the same
    c_open,         \* the client has not closed its sending side
    s_open,         \* the upstream has not closed its sending side
    c_pending,      \* chunks the client sent that the tunnel has not read
    s_pending,      \* chunks the upstream sent that the tunnel has not read
    c_sent,         \* chunks the client has sent
    s_sent,         \* chunks the upstream has sent
    p_up,           \* the chunks written to the upstream, in order
    p_down,         \* the chunks written to the client, in order
    \* --- validate_host applied to one strategy and one host ---
    v_strategy,     \* the strategy
    v_host,         \* the host
    v_op,           \* "idle" before, "validate_host" after
    v_result,       \* what validate_host returned
    \* --- parse_request and serialize_request applied to one buffer ---
    w_buf,          \* the bytes handed to parse_request
    w_op,           \* "idle", then "parsed", "serialized", "reparsed"
    w_req,          \* what parse_request returned for w_buf
    w_wire,         \* serialize_request of the parsed request
    w_req2,         \* what parse_request returned for w_wire
    \* --- the session loop reading requests from the client stream ---
    rd_msgs,        \* the requests the client sends, each as its wire bytes
    rd_sent,        \* bytes of the stream the client has sent
    rd_closed,      \* the client has closed the stream
    rd_read,        \* bytes of the stream the session has read
    rd_buffer,      \* read_http_request: buffer
    rd_pc,          \* "read", "handle", "done"; "idle" when unused
    rd_ret,         \* what read_http_request returned last: "Some", "None", "ErrParse", "ErrClosed"
    rd_result,      \* what the session returned: "running", "Ok", "TunnelError"
    rd_requests,    \* the requests read_http_request has returned
    rd_upstream,    \* the requests written to the upstream
    \* --- the start of MITM sessions: the CA files and each session's acceptor ---
    f_cert,         \* the certificate file: {} when absent, else the CA whose certificate it holds
    f_key,          \* the key file: {} when absent, else the CA whose key it holds
    k_pc,           \* where each session is between load_or_generate and the handshake
    k_host,         \* the hostname of each session
    k_ca,           \* the CertificateAuthority each session obtained: whose cert_pem, whose key
    k_before,       \* the sessions that had finished their handshake when this one started
    acc_cache,      \* the CertificateCache of each session's MitmAcceptor
    k_leaf,         \* the leaf each session presented to its client
    \* --- proxy_handler invocations and the active-connections gauge ---
    ACTIVE_CONNECTIONS,\* the IntGauge slapenir_proxy_active_connections
    a_pc,           \* where each proxy_handler invocation is
    a_calls,        \* how many invocations each task has started
    a_result,       \* what the last invocation of each task returned
    \* --- read_http_request and read_http_response on long messages ---
    z_kind,         \* which loop runs: "request" or "response"
    z_head,         \* the first bytes of the buffer
    z_fill,         \* how many bytes of a header value follow them in the buffer
    z_tail,         \* the bytes of the buffer after those
    z_small,        \* how many one-byte reads there were
    z_pc,           \* "loop" while the read loop runs
    z_ret           \* what the read loop returned

pureVars == << fn_map, fn_in, fn_op, fn_out >>

sessVars == << s_host, s_pc, s_result, s_buf, s_req, s_upstream, s_resp,
               s_client, n_req, n_upstream, n_client >>

cacheVars == << max_capacity, cache, now, SERIAL_COUNTER, minted,
                t_pc, t_host, t_timestamp, t_cert, t_ret, t_last, t_calls >>

connVars == << h_uri, h_responses, h_connects, h_stream, h_task, h_branch, h_tls,
               h_logged, p_c2s, p_s2c, c_open, s_open, c_pending, s_pending,
               c_sent, s_sent, p_up, p_down >>

hostVars == << v_strategy, v_host, v_op, v_result >>

parseVars == << w_buf, w_op, w_req, w_wire, w_req2 >>

readVars == << rd_msgs, rd_sent, rd_closed, rd_read, rd_buffer, rd_pc, rd_ret, rd_result, rd_requests, rd_upstream >>

startVars == << f_cert, f_key, k_pc, k_host, k_ca, k_before, acc_cache, k_leaf >>

gaugeVars == << ACTIVE_CONNECTIONS, a_pc, a_calls, a_result >>

sizeVars == << z_kind, z_head, z_fill, z_tail, z_small, z_pc, z_ret >>

vars == << fn_map, fn_in, fn_op, fn_out,
           s_host, s_pc, s_result, s_buf, s_req, s_upstream, s_resp,
           s_client, n_req, n_upstream, n_client,
           max_capacity, cache, now, SERIAL_COUNTER, minted,
           t_pc, t_host, t_timestamp, t_cert, t_ret, t_last, t_calls,
           h_uri, h_responses, h_connects, h_stream, h_task, h_branch, h_tls,
           h_logged, p_c2s, p_s2c, c_open, s_open, c_pending, s_pending,
           c_sent, s_sent, p_up, p_down,
           v_strategy, v_host, v_op, v_result,
           w_buf, w_op, w_req, w_wire, w_req2,
           rd_msgs, rd_sent, rd_closed, rd_read, rd_buffer, rd_pc, rd_ret, rd_result, rd_requests, rd_upstream,
           f_cert, f_key, k_pc, k_host, k_ca, k_before, acc_cache, k_leaf,
           ACTIVE_CONNECTIONS, a_pc, a_calls, a_result,
           z_kind, z_head, z_fill, z_tail, z_small, z_pc, z_ret >>

notPureVars == << sessVars, cacheVars, connVars, hostVars, parseVars, readVars, startVars, gaugeVars, sizeVars >>

notSessVars == << pureVars, cacheVars, connVars, hostVars, parseVars, readVars, startVars, gaugeVars, sizeVars >>

notCacheVars == << pureVars, sessVars, connVars, hostVars, parseVars, readVars, startVars, gaugeVars, sizeVars >>

notConnVars == << pureVars, sessVars, cacheVars, hostVars, parseVars, readVars, startVars, gaugeVars, sizeVars >>

notHostVars == << pureVars, sessVars, cacheVars, connVars, parseVars, readVars, startVars, gaugeVars, sizeVars >>

notParseVars == << pureVars, sessVars, cacheVars, connVars, hostVars, readVars, startVars, gaugeVars, sizeVars >>

notReadVars == << pureVars, sessVars, cacheVars, connVars, hostVars, parseVars, startVars, gaugeVars, sizeVars >>

notStartVars == << pureVars, sessVars, cacheVars, connVars, hostVars, parseVars, readVars, gaugeVars, sizeVars >>

notGaugeVars == << pureVars, sessVars, cacheVars, connVars, hostVars, parseVars, readVars, startVars, sizeVars >>

notSizeVars == << pureVars, sessVars, cacheVars, connVars, hostVars, parseVars, readVars, startVars, gaugeVars >>

\* ------------------------------------------------------------------------
\* Values the parts of the state take while another part is exercised
\* ------------------------------------------------------------------------

NoMsg == [none |-> TRUE]

NoCert == [none |-> TRUE, hostname |-> "", serial |-> -1, key |-> -1]

EmptyMap == [x \in {} |-> << >>]

\* the tasks that call get_or_create on the shared cache
Tasks == 1 .. NumTasks

SessionIdle ==
    /\ s_host = << >>
    /\ s_pc = "idle"
    /\ s_result = "running"
    /\ s_buf = 0
    /\ s_req = NoMsg
    /\ s_upstream = NoMsg
    /\ s_resp = NoMsg
    /\ s_client = NoMsg
    /\ n_req = 0
    /\ n_upstream = 0
    /\ n_client = 0

PureIdle ==
    /\ fn_map = SecretMapOf(<< >>, << >>)
    /\ fn_in = << >>
    /\ fn_op = "idle"
    /\ fn_out = << >>

ConnIdle ==
    /\ h_uri = [has_authority |-> FALSE, authority |-> << >>]
    /\ h_responses = << >>
    /\ h_connects = 0
    /\ h_stream = "none"
    /\ h_task = "idle"
    /\ h_branch = "none"
    /\ h_tls = FALSE
    /\ h_logged = {}
    /\ p_c2s = "idle"
    /\ p_s2c = "idle"
    /\ c_open = TRUE
    /\ s_open = TRUE
    /\ c_pending = 0
    /\ s_pending = 0
    /\ c_sent = 0
    /\ s_sent = 0
    /\ p_up = << >>
    /\ p_down = << >>

HostIdle ==
    /\ v_strategy = [name |-> "", dummy_pattern |-> << >>, allowed_hosts |-> << >>,
                     has_token |-> FALSE, real_token |-> << >>]
    /\ v_host = << >>
    /\ v_op = "idle"
    /\ v_result = FALSE

ParseIdle ==
    /\ w_buf = << >>
    /\ w_op = "idle"
    /\ w_req = [status |-> "none"]
    /\ w_wire = << >>
    /\ w_req2 = [status |-> "none"]

ReadIdle ==
    /\ rd_msgs = << >>
    /\ rd_sent = 0
    /\ rd_closed = FALSE
    /\ rd_read = 0
    /\ rd_buffer = << >>
    /\ rd_pc = "idle"
    /\ rd_ret = "none"
    /\ rd_result = "running"
    /\ rd_requests = << >>
    /\ rd_upstream = << >>

StartIdle ==
    /\ f_cert = {}
    /\ f_key = {}
    /\ k_pc = << >>
    /\ k_host = << >>
    /\ k_ca = << >>
    /\ k_before = << >>
    /\ acc_cache = << >>
    /\ k_leaf = << >>

GaugeIdle ==
    /\ ACTIVE_CONNECTIONS = 0
    /\ a_pc = << >>
    /\ a_calls = << >>
    /\ a_result = << >>

SizeIdle ==
    /\ z_kind = ""
    /\ z_head = << >>
    /\ z_fill = 0
    /\ z_tail = << >>
    /\ z_small = 0
    /\ z_pc = "idle"
    /\ z_ret = "none"

CacheIdle ==
    /\ max_capacity = 0
    /\ cache = EmptyMap
    /\ now = 0
    /\ SERIAL_COUNTER = 0
    /\ minted = {}
    /\ t_pc = [t \in Tasks |-> "idle"]
    /\ t_host = [t \in Tasks |-> ""]
    /\ t_timestamp = [t \in Tasks |-> 0]
    /\ t_cert = [t \in Tasks |-> NoCert]
    /\ t_ret = [t \in Tasks |-> NoCert]
    /\ t_last = [t \in Tasks |-> "none"]
    /\ t_calls = [t \in Tasks |-> 0]

\* ------------------------------------------------------------------------
\* Pure operations of the secret map on bounded inputs
\* ------------------------------------------------------------------------

\* the bytes the inputs are drawn from
PureAlphabet == { "s", "k", "]", "x", "E", "D", "xFF" }

\* secret maps the operations are tried with
PureSecretMaps ==
    { SecretMapOf(<< <<"D">> >>, << <<"s", "k">> >>),
      SecretMapOf(<< <<"D">>, <<"E">> >>, << <<"s", "k">>, <<"k", "x">> >>),
      SecretMapOf(<< <<"D">> >>, << <<"]", "x">> >>),
      SecretMapOf(<< <<"E">>, <<"D">> >>, << <<"s", "k">>, <<"k">> >>),
      SecretMapOf(<< <<"s", "k">> >>, << <<"s">> >>),
      SecretMapOf(<< <<"D">>, <<"D", "E">> >>, << <<"k">>, <<"x">> >>) }

PureInit ==
    /\ fn_map \in PureSecretMaps
    /\ fn_in \in SeqsUpTo(PureAlphabet, MaxLen)
    /\ fn_op = "none"
    /\ fn_out = << >>
    /\ SessionIdle
    /\ CacheIdle
    /\ ConnIdle
    /\ HostIdle
    /\ ParseIdle
    /\ ReadIdle
    /\ StartIdle
    /\ GaugeIdle
    /\ SizeIdle

ApplySanitizeBytes ==
    /\ fn_op = "none"
    /\ fn_op' = "sanitize_bytes"
    /\ fn_out' = sanitize_bytes(fn_map, fn_in)
    /\ UNCHANGED << fn_map, fn_in >>
    /\ UNCHANGED notPureVars

\* inject applied to a text (no byte of it is "xFF": a &str is valid UTF-8)
ApplyInject ==
    /\ fn_op = "none"
    /\ \A i \in DOMAIN fn_in : fn_in[i] # "xFF"
    /\ fn_op' = "inject"
    /\ fn_out' = inject(fn_map, fn_in)
    /\ UNCHANGED << fn_map, fn_in >>
    /\ UNCHANGED notPureVars

\* sanitize applied to a text
ApplySanitize ==
    /\ fn_op = "none"
    /\ \A i \in DOMAIN fn_in : fn_in[i] # "xFF"
    /\ fn_op' = "sanitize"
    /\ fn_out' = sanitize(fn_map, fn_in)
    /\ UNCHANGED << fn_map, fn_in >>
    /\ UNCHANGED notPureVars

PureNext ==
    \/ ApplySanitizeBytes
    \/ ApplyInject
    \/ ApplySanitize

PureSpec == PureInit /\ [][PureNext]_vars

\* ------------------------------------------------------------------------
\* Authentication strategies (strategy.rs)
\* ------------------------------------------------------------------------

\* BearerStrategy; real_token is None when has_token is FALSE
BearerStrategy(name, dummy, hosts, has, real) ==
    [name |-> name, dummy_pattern |-> dummy, allowed_hosts |-> hosts,
     has_token |-> has, real_token |-> real]

\* a wildcard that accepts the bare suffix only
matches_wildcard_base_only(pattern, host) ==
    IF StartsWith(pattern, << "*", "." >>)
    THEN host = SubSeq(pattern, 3, Len(pattern))
    ELSE pattern = host

\* BearerStrategy::matches_wildcard, AWSSigV4Strategy::matches_wildcard
matches_wildcard(pattern, host) ==
    IF StartsWith(pattern, << "*", "." >>)
    THEN LET base == SubSeq(pattern, 3, Len(pattern))
         IN  EndsWith(host, base) \/ host = base
    ELSE pattern = host

\* BearerStrategy::validate_host
validate_host(S, host) ==
    IF S.allowed_hosts = << >>
    THEN TRUE
    ELSE \E i \in DOMAIN S.allowed_hosts : matches_wildcard(S.allowed_hosts[i], host)

HeaderContains(headers, name, pat) ==
    name \in DOMAIN headers /\ Contains(headers[name], pat)

\* BearerStrategy::detect
detect(S, headers, body) ==
    \/ HeaderContains(headers, "authorization", S.dummy_pattern)
    \/ HeaderContains(headers, "x-api-key", S.dummy_pattern)
    \/ Contains(body, S.dummy_pattern)

\* The host whitelist guard the session calls.  Every strategy that detects
\* the request must accept the host; the first detected strategy that
\* rejects it makes the result HostNotWhitelisted.
detect_and_validate_strategies(strats, headers, body, host) ==
    LET detected == { i \in DOMAIN strats : detect(strats[i], headers, body) }
        rejected == { i \in detected : ~validate_host(strats[i], host) }
    IN  IF rejected = {}
        THEN [ok |-> TRUE, validated |-> detected,
              credential_type |-> "", host |-> host, allowed_hosts |-> << >>]
        ELSE [ok |-> FALSE, validated |-> {},
              credential_type |-> "bearer", host |-> host,
              allowed_hosts |-> strats[Min(rejected)].allowed_hosts]

\* SecretMap::from_strategies: the dummy and the real of every strategy that
\* has a real credential
from_strategies(strats) ==
    LET withCred == SelectSeq(strats, LAMBDA S : S.has_token)
    IN  SecretMapOf([k \in DOMAIN withCred |-> withCred[k].dummy_pattern],
                    [k \in DOMAIN withCred |-> withCred[k].real_token])

\* ------------------------------------------------------------------------
\* HTTP messages (http_parser.rs): ParsedRequest and ParsedResponse.
\* headers is the HashMap<String, String> of lowercased names.
\* ------------------------------------------------------------------------

DigitChars == << "0", "1", "2", "3", "4", "5", "6", "7", "8", "9" >>

\* usize::to_string
RECURSIVE to_string(_)
to_string(n) ==
    IF n < 10
    THEN << DigitChars[n + 1] >>
    ELSE to_string(n \div 10) \o << DigitChars[(n % 10) + 1] >>

UpperChars == << "A", "B", "C", "D", "E", "F", "G", "H", "I", "J", "K", "L", "M",
                 "N", "O", "P", "Q", "R", "S", "T", "U", "V", "W", "X", "Y", "Z" >>
LowerChars == << "a", "b", "c", "d", "e", "f", "g", "h", "i", "j", "k", "l", "m",
                 "n", "o", "p", "q", "r", "s", "t", "u", "v", "w", "x", "y", "z" >>

\* u8::to_ascii_lowercase
AsciiLowerChar(c) ==
    IF \E i \in DOMAIN UpperChars : UpperChars[i] = c
    THEN LowerChars[CHOOSE i \in DOMAIN UpperChars : UpperChars[i] = c]
    ELSE c

\* str::eq_ignore_ascii_case
eq_ignore_ascii_case(a, b) ==
    /\ Len(a) = Len(b)
    /\ \A i \in DOMAIN a : AsciiLowerChar(a[i]) = AsciiLowerChar(b[i])

CLOSE == << "c", "l", "o", "s", "e" >>
KEEP_ALIVE == << "k", "e", "e", "p", "-", "a", "l", "i", "v", "e" >>

\* bytes neither httparse nor HeaderValue::from_str lets into a header value
ControlChars == { "x00", "x0A", "x0D", "x7F" }

\* connect_full.rs: the parsed headers rebuilt as an axum HeaderMap; a header
\* whose value HeaderValue::from_str refuses is left out
header_map(headers) ==
    LET ok == { n \in DOMAIN headers :
                  \A i \in DOMAIN headers[n] : headers[n][i] \notin ControlChars }
    IN  [n \in ok |-> headers[n]]

\* connect_full.rs: should_close_connection
should_close_connection(request, response) ==
    \/ /\ "connection" \in DOMAIN request.headers
       /\ eq_ignore_ascii_case(request.headers["connection"], CLOSE)
    \/ /\ "connection" \in DOMAIN response.headers
       /\ eq_ignore_ascii_case(response.headers["connection"], CLOSE)

\* ------------------------------------------------------------------------
\* The MITM session loop (connect_full.rs, tunnel_with_tls_mitm_full)
\* ------------------------------------------------------------------------

\* AppState.strategies
strategies ==
    << BearerStrategy("openai", << "D", "1" >>, << << "a", ".", "x" >> >>,
                      TRUE, << "s", "k" >>),
       BearerStrategy("github", << "D", "2" >>, << << "*", ".", "y" >> >>,
                      TRUE, << "g", "h" >>),
       BearerStrategy("slack", << "D", "3" >>, << << "a", ".", "x" >> >>,
                      FALSE, << >>) >>

\* AppState.secret_map
secret_map == from_strategies(strategies)

\* hostnames of the CONNECT destinations tried
SessionHosts == { << "a", ".", "x" >>, << "b", ".", "y" >>, << "e", ".", "z" >> }

\* sanitizer.rs: BLOCKED_HEADERS
BLOCKED_HEADERS ==
    { "x-debug-token", "x-debug-info", "server-timing", "x-runtime",
      "x-request-debug" }

\* headers that describe the body as it was sent
BodyHeaders ==
    "transfer-encoding" :> << "c", "h", "u", "n", "k", "e", "d" >>
    @@ "etag" :> << "t", "1" >>
    @@ "content-md5" :> << "m", "5" >>

\* the requests a client may send
SessionRequests ==
    { [method |-> "POST", path |-> "/v1", version |-> v,
       headers |-> c @@ a @@ (IF l THEN "content-length" :> to_string(Len(b))
                                    ELSE EmptyMap),
       body |-> b] :
        v \in {0, 1},
        c \in { EmptyMap, "connection" :> CLOSE, "connection" :> KEEP_ALIVE },
        a \in { EmptyMap, "authorization" :> << "B", " ", "D", "1" >> },
        l \in BOOLEAN,
        b \in { << >>, << "D", "2" >>, << "D", "3" >>, << "D", "1", "xFF" >> } }
    \cup
    { [method |-> "POST", path |-> "/v1", version |-> 1,
       headers |-> BodyHeaders @@ (IF l THEN "content-length" :> to_string(2)
                                        ELSE EmptyMap),
       body |-> << "D", "2" >>] :
        l \in BOOLEAN }

\* the responses an upstream may send
SessionResponses ==
    { [version |-> v, code |-> 200, reason |-> r,
       headers |-> c @@ x @@ (IF l THEN "content-length" :> to_string(Len(b))
                                    ELSE EmptyMap),
       body |-> b] :
        v \in {0, 1},
        r \in { << "O", "K" >>, << "s", "k" >> },
        c \in { EmptyMap, "connection" :> << "C", "l", "o", "s", "e" >>,
                "connection" :> KEEP_ALIVE },
        x \in { EmptyMap, "x-debug-key" :> << "g", "h" >> },
        l \in BOOLEAN,
        b \in { << >>, << "o", "k" >>, << "s", "k" >>, << "s", "k", "xFF" >> } }
    \cup
    { [version |-> 1, code |-> 200, reason |-> << "O", "K" >>,
       headers |-> BodyHeaders @@ "x-debug-token" :> << "s", "k" >>
                   @@ (IF l THEN "content-length" :> to_string(2) ELSE EmptyMap),
       body |-> << "s", "k" >>] :
        l \in BOOLEAN }

\* connect_full.rs, credential injection: the body through from_utf8_lossy and
\* inject, Content-Length rewritten when the body changed, then every header
\* value through inject
InjectedRequest(M, req) ==
    LET body_str == from_utf8_lossy(req.body)
        injected_body == inject(M, body_str)
        changed == injected_body # body_str
        body1 == IF changed THEN injected_body ELSE req.body
        h1 == IF changed /\ "content-length" \in DOMAIN req.headers
              THEN [req.headers EXCEPT !["content-length"] = to_string(Len(body1))]
              ELSE req.headers
    IN  [req EXCEPT !.headers = [n \in DOMAIN h1 |-> inject(M, h1[n])],
                    !.body = body1]

\* connect_full.rs, response sanitization: the body through from_utf8_lossy
\* and sanitize, Content-Length rewritten when the body changed, then every
\* header value through sanitize.  The status line is left as parsed.
SanitizedResponse(M, resp) ==
    LET response_body_str == from_utf8_lossy(resp.body)
        sanitized_body == sanitize(M, response_body_str)
        changed == sanitized_body # response_body_str
        body1 == IF changed THEN sanitized_body ELSE resp.body
        h1 == IF changed /\ "content-length" \in DOMAIN resp.headers
              THEN [resp.headers EXCEPT !["content-length"] = to_string(Len(body1))]
              ELSE resp.headers
    IN  [resp EXCEPT !.headers = [n \in DOMAIN h1 |-> sanitize(M, h1[n])],
                     !.body = body1]

\* the guard's verdict on the request just parsed
GuardVerdict ==
    detect_and_validate_strategies(strategies, header_map(s_req.headers),
                                   from_utf8_lossy(s_req.body), s_host)

SessionInit ==
    /\ s_host \in SessionHosts
    /\ s_pc = "read_request"
    /\ s_result = "running"
    /\ s_buf = 0
    /\ s_req = NoMsg
    /\ s_upstream = NoMsg
    /\ s_resp = NoMsg
    /\ s_client = NoMsg
    /\ n_req = 0
    /\ n_upstream = 0
    /\ n_client = 0
    /\ PureIdle
    /\ CacheIdle
    /\ ConnIdle
    /\ HostIdle
    /\ ParseIdle
    /\ ReadIdle
    /\ StartIdle
    /\ GaugeIdle
    /\ SizeIdle

\* the function returns: the loop is left with the given result
Finish(result) ==
    /\ s_pc' = "done"
    /\ s_result' = result

\* read_http_request: the client closed the stream.  With nothing buffered the
\* session ends cleanly, otherwise the request was cut short.
ReadRequestEof ==
    /\ s_pc = "read_request"
    /\ Finish(IF s_buf = 0 THEN "Ok" ELSE "TunnelError")
    /\ UNCHANGED << s_host, s_buf, s_req, s_upstream, s_resp, s_client,
                    n_req, n_upstream, n_client >>
    /\ UNCHANGED notSessVars

\* read_http_request: a read returned bytes that do not complete the headers
ReadRequestPartial ==
    /\ s_pc = "read_request"
    /\ s_buf < MaxPartialReads
    /\ s_buf' = s_buf + 1
    /\ UNCHANGED << s_host, s_pc, s_result, s_req, s_upstream, s_resp, s_client,
                    n_req, n_upstream, n_client >>
    /\ UNCHANGED notSessVars

\* read_http_request: the buffer cannot be parsed
ReadRequestMalformed ==
    /\ s_pc = "read_request"
    /\ Finish("TunnelError")
    /\ UNCHANGED << s_host, s_buf, s_req, s_upstream, s_resp, s_client,
                    n_req, n_upstream, n_client >>
    /\ UNCHANGED notSessVars

\* read_http_request: the buffer now parses as a complete request
ReadRequestComplete ==
    /\ s_pc = "read_request"
    /\ n_req < MaxRequests
    /\ \E req \in SessionRequests : s_req' = req
    /\ s_pc' = "guard"
    /\ s_buf' = 0
    /\ n_req' = n_req + 1
    /\ s_upstream' = NoMsg
    /\ s_resp' = NoMsg
    /\ s_client' = NoMsg
    /\ UNCHANGED << s_host, s_result, n_upstream, n_client >>
    /\ UNCHANGED notSessVars

\* the guard refuses the host: the function returns SecurityViolation
GuardReject ==
    /\ s_pc = "guard"
    /\ ~GuardVerdict.ok
    /\ Finish("SecurityViolation")
    /\ UNCHANGED << s_host, s_buf, s_req, s_upstream, s_resp, s_client,
                    n_req, n_upstream, n_client >>
    /\ UNCHANGED notSessVars

\* a pipelining slip: the request is forwarded whatever the guard says
ForwardRequestUnguarded ==
    /\ s_pc = "guard"
    /\ s_upstream' = InjectedRequest(secret_map, s_req)
    /\ n_upstream' = n_upstream + 1
    /\ s_pc' = "read_response"
    /\ UNCHANGED << s_host, s_result, s_buf, s_req, s_resp, s_client,
                    n_req, n_client >>
    /\ UNCHANGED notSessVars

\* the guard passes: credentials are injected and the request is written
\* upstream
ForwardRequest ==
    /\ s_pc = "guard"
    /\ GuardVerdict.ok
    /\ s_upstream' = InjectedRequest(secret_map, s_req)
    /\ n_upstream' = n_upstream + 1
    /\ s_pc' = "read_response"
    /\ UNCHANGED << s_host, s_result, s_buf, s_req, s_resp, s_client,
                    n_req, n_client >>
    /\ UNCHANGED notSessVars

\* the guard passes but the write to the upstream stream fails
ForwardRequestFails ==
    /\ s_pc = "guard"
    /\ GuardVerdict.ok
    /\ Finish("TunnelError")
    /\ UNCHANGED << s_host, s_buf, s_req, s_upstream, s_resp, s_client,
                    n_req, n_upstream, n_client >>
    /\ UNCHANGED notSessVars

\* read_http_response: the upstream closed the stream
ReadResponseEof ==
    /\ s_pc = "read_response"
    /\ Finish(IF s_buf = 0 THEN "Ok" ELSE "TunnelError")
    /\ UNCHANGED << s_host, s_buf, s_req, s_upstream, s_resp, s_client,
                    n_req, n_upstream, n_client >>
    /\ UNCHANGED notSessVars

\* read_http_response: a read returned bytes that do not complete the headers
ReadResponsePartial ==
    /\ s_pc = "read_response"
    /\ s_buf < MaxPartialReads
    /\ s_buf' = s_buf + 1
    /\ UNCHANGED << s_host, s_pc, s_result, s_req, s_upstream, s_resp, s_client,
                    n_req, n_upstream, n_client >>
    /\ UNCHANGED notSessVars

\* read_http_response: the buffer cannot be parsed
ReadResponseMalformed ==
    /\ s_pc = "read_response"
    /\ Finish("TunnelError")
    /\ UNCHANGED << s_host, s_buf, s_req, s_upstream, s_resp, s_client,
                    n_req, n_upstream, n_client >>
    /\ UNCHANGED notSessVars

\* read_http_response: the buffer now parses as a complete response
ReadResponseComplete ==
    /\ s_pc = "read_response"
    /\ \E resp \in SessionResponses : s_resp' = resp
    /\ s_pc' = "respond"
    /\ s_buf' = 0
    /\ UNCHANGED << s_host, s_result, s_req, s_upstream, s_client,
                    n_req, n_upstream, n_client >>
    /\ UNCHANGED notSessVars

\* a slip: the loop goes back to reading the client without having written
\* the response
RespondToClientSkipped ==
    /\ s_pc = "respond"
    /\ s_pc' = "read_request"
    /\ UNCHANGED << s_host, s_result, s_buf, s_req, s_upstream, s_resp, s_client,
                    n_req, n_upstream, n_client >>
    /\ UNCHANGED notSessVars

\* the response is sanitized and written to the client; then the connection
\* decision on the request as forwarded and the response as written
RespondToClient ==
    /\ s_pc = "respond"
    /\ LET out == SanitizedResponse(secret_map, s_resp)
       IN  /\ s_client' = out
           /\ IF should_close_connection(s_upstream, out)
              THEN Finish("Ok")
              ELSE s_pc' = "read_request" /\ s_result' = s_result
    /\ n_client' = n_client + 1
    /\ UNCHANGED << s_host, s_buf, s_req, s_upstream, s_resp, n_req, n_upstream >>
    /\ UNCHANGED notSessVars

\* the write to the client stream fails
RespondFails ==
    /\ s_pc = "respond"
    /\ Finish("TunnelError")
    /\ UNCHANGED << s_host, s_buf, s_req, s_upstream, s_resp, s_client,
                    n_req, n_upstream, n_client >>
    /\ UNCHANGED notSessVars

Next ==
    \/ ReadRequestEof
    \/ ReadRequestPartial
    \/ ReadRequestMalformed
    \/ ReadRequestComplete
    \/ GuardReject
    \/ ForwardRequest
    \/ ForwardRequestFails
    \/ ReadResponseEof
    \/ ReadResponsePartial
    \/ ReadResponseMalformed
    \/ ReadResponseComplete
    \/ RespondToClient
    \/ RespondFails

Spec == SessionInit /\ [][Next]_vars

\* ------------------------------------------------------------------------
\* The certificate authority (tls/ca.rs) and the certificate cache
\* (tls/cache.rs), shared by several tasks
\* ------------------------------------------------------------------------

\* hostnames certificates are asked for
CacheHosts == { "a.x", "b.y" }

\* HostCertificate; key stands for the key pair generated for this leaf
HostCertificate(hostname, serial, key) ==
    [none |-> FALSE, hostname |-> hostname, serial |-> serial, key |-> key]

\* CacheEntry
CacheEntry(certificate, last_accessed) ==
    [certificate |-> certificate, last_accessed |-> last_accessed]

\* HashMap::remove
Remove(c, k) == [x \in DOMAIN c \ {k} |-> c[x]]

\* HashMap::insert
Insert(c, k, v) == [x \in DOMAIN c \cup {k} |-> IF x = k THEN v ELSE c[x]]

\* the keys min_by_key(last_accessed) may return: the HashMap's iteration
\* order decides among entries with the same last_accessed
LruKeys(c) ==
    { k \in DOMAIN c : \A j \in DOMAIN c : c[k].last_accessed <= c[j].last_accessed }

\* CertificateCache::evict_lru: the maps it may leave behind
evict_lru(c) ==
    IF DOMAIN c = {}
    THEN { c }
    ELSE { Remove(c, k) : k \in LruKeys(c) }

\* CertificateAuthority::sign_for_host: serial_num = timestamp.wrapping_add(counter);
\* the values here stay far below 2^64
serial_num(timestamp, counter) == timestamp + counter

RECURSIVE SumOver(_, _)
SumOver(f, S) ==
    IF S = {}
    THEN 0
    ELSE LET x == CHOOSE y \in S : TRUE
         IN  f[x] + SumOver(f, S \ {x})

\* get_or_create calls started so far, over all tasks
TotalCalls == SumOver(t_calls, Tasks)

\* the leaf of a get_or_create("a.x") that ran alone at time 0 in a new cache
FirstLeaf == HostCertificate("a.x", serial_num(0, 0), 0)

\* a cache is new, or has served that one call (capacity permitting)
CacheInit ==
    /\ max_capacity \in 0 .. MaxCapacity
    /\ \/ /\ cache = EmptyMap
          /\ SERIAL_COUNTER = 0
          /\ minted = {}
       \/ /\ max_capacity >= 1
          /\ cache = "a.x" :> CacheEntry(FirstLeaf, 0)
          /\ SERIAL_COUNTER = 1
          /\ minted = { FirstLeaf }
    /\ now = 0
    /\ t_pc = [t \in Tasks |-> "ready"]
    /\ t_host = [t \in Tasks |-> ""]
    /\ t_timestamp = [t \in Tasks |-> 0]
    /\ t_cert = [t \in Tasks |-> NoCert]
    /\ t_ret = [t \in Tasks |-> NoCert]
    /\ t_last = [t \in Tasks |-> "none"]
    /\ t_calls = [t \in Tasks |-> 0]
    /\ PureIdle
    /\ SessionIdle
    /\ ConnIdle
    /\ HostIdle
    /\ ParseIdle
    /\ ReadIdle
    /\ StartIdle
    /\ GaugeIdle
    /\ SizeIdle

\* the clock advances
Tick ==
    /\ now < MaxTime
    /\ now' = now + 1
    /\ UNCHANGED << max_capacity, cache, SERIAL_COUNTER, minted, t_pc, t_host,
                    t_timestamp, t_cert, t_ret, t_last, t_calls >>
    /\ UNCHANGED notCacheVars

\* a hit that hands the leaf back but leaves the entry's access time alone
LookupHitStale(t, hostname) ==
    /\ t_pc[t] = "ready"
    /\ TotalCalls < MaxCalls
    /\ hostname \in DOMAIN cache
    /\ t_calls' = [t_calls EXCEPT ![t] = @ + 1]
    /\ t_host' = [t_host EXCEPT ![t] = hostname]
    /\ t_ret' = [t_ret EXCEPT ![t] = cache[hostname].certificate]
    /\ t_last' = [t_last EXCEPT ![t] = "hit"]
    /\ UNCHANGED << max_capacity, cache, now, SERIAL_COUNTER, minted, t_pc,
                    t_timestamp, t_cert >>
    /\ UNCHANGED notCacheVars

\* get_or_create, first lock section, the hostname is cached: the entry's
\* last_accessed becomes the current time and its certificate is returned
LookupHit(t, hostname) ==
    /\ t_pc[t] = "ready"
    /\ TotalCalls < MaxCalls
    /\ hostname \in DOMAIN cache
    /\ t_calls' = [t_calls EXCEPT ![t] = @ + 1]
    /\ t_host' = [t_host EXCEPT ![t] = hostname]
    /\ cache' = [cache EXCEPT ![hostname].last_accessed = now]
    /\ t_ret' = [t_ret EXCEPT ![t] = cache[hostname].certificate]
    /\ t_last' = [t_last EXCEPT ![t] = "hit"]
    /\ UNCHANGED << max_capacity, now, SERIAL_COUNTER, minted, t_pc,
                    t_timestamp, t_cert >>
    /\ UNCHANGED notCacheVars

\* get_or_create, first lock section, the hostname is not cached: the lock
\* is released and sign_for_host is entered
LookupMiss(t, hostname) ==
    /\ t_pc[t] = "ready"
    /\ TotalCalls < MaxCalls
    /\ hostname \notin DOMAIN cache
    /\ t_calls' = [t_calls EXCEPT ![t] = @ + 1]
    /\ t_host' = [t_host EXCEPT ![t] = hostname]
    /\ t_pc' = [t_pc EXCEPT ![t] = "sign_clock"]
    /\ UNCHANGED << max_capacity, cache, now, SERIAL_COUNTER, minted,
                    t_timestamp, t_cert, t_ret, t_last >>
    /\ UNCHANGED notCacheVars

\* sign_for_host: SystemTime::now() is read
SignReadClock(t) ==
    /\ t_pc[t] = "sign_clock"
    /\ t_timestamp' = [t_timestamp EXCEPT ![t] = now]
    /\ t_pc' = [t_pc EXCEPT ![t] = "sign_counter"]
    /\ UNCHANGED << max_capacity, cache, now, SERIAL_COUNTER, minted, t_host,
                    t_cert, t_ret, t_last, t_calls >>
    /\ UNCHANGED notCacheVars

\* sign_for_host: SERIAL_COUNTER.fetch_add(1), then the leaf is generated
\* under a fresh key pair and signed
SignFetchAdd(t) ==
    /\ t_pc[t] = "sign_counter"
    /\ LET cert == HostCertificate(t_host[t],
                                   serial_num(t_timestamp[t], SERIAL_COUNTER),
                                   SERIAL_COUNTER)
       IN  /\ t_cert' = [t_cert EXCEPT ![t] = cert]
           /\ minted' = minted \cup { cert }
    /\ SERIAL_COUNTER' = SERIAL_COUNTER + 1
    /\ t_pc' = [t_pc EXCEPT ![t] = "insert"]
    /\ UNCHANGED << max_capacity, cache, now, t_host, t_timestamp, t_ret,
                    t_last, t_calls >>
    /\ UNCHANGED notCacheVars

\* sign_for_host: SERIAL_COUNTER.fetch_add(1), then generating or signing
\* fails; get_or_create returns the error
SignFails(t) ==
    /\ t_pc[t] = "sign_counter"
    /\ SERIAL_COUNTER' = SERIAL_COUNTER + 1
    /\ t_ret' = [t_ret EXCEPT ![t] = NoCert]
    /\ t_last' = [t_last EXCEPT ![t] = "error"]
    /\ t_pc' = [t_pc EXCEPT ![t] = "ready"]
    /\ t_timestamp' = [t_timestamp EXCEPT ![t] = 0]
    /\ UNCHANGED << max_capacity, cache, now, minted, t_host, t_cert, t_calls >>
    /\ UNCHANGED notCacheVars

\* a second lock section that hands the leaf back uncached when the cache is
\* at capacity
StoreInCacheUnlessFull(t) ==
    /\ t_pc[t] = "insert"
    /\ cache' = IF Cardinality(DOMAIN cache) >= max_capacity
                THEN cache
                ELSE Insert(cache, t_host[t], CacheEntry(t_cert[t], now))
    /\ t_ret' = [t_ret EXCEPT ![t] = t_cert[t]]
    /\ t_last' = [t_last EXCEPT ![t] = "miss"]
    /\ t_pc' = [t_pc EXCEPT ![t] = "ready"]
    /\ t_timestamp' = [t_timestamp EXCEPT ![t] = 0]
    /\ t_cert' = [t_cert EXCEPT ![t] = NoCert]
    /\ UNCHANGED << max_capacity, now, SERIAL_COUNTER, minted, t_host, t_calls >>
    /\ UNCHANGED notCacheVars

\* get_or_create, second lock section: evict when the cache is at capacity,
\* insert the new leaf under the hostname, return it
StoreInCache(t) ==
    /\ t_pc[t] = "insert"
    /\ \E c \in (IF Cardinality(DOMAIN cache) >= max_capacity
                 THEN evict_lru(cache)
                 ELSE { cache }) :
          cache' = Insert(c, t_host[t], CacheEntry(t_cert[t], now))
    /\ t_ret' = [t_ret EXCEPT ![t] = t_cert[t]]
    /\ t_last' = [t_last EXCEPT ![t] = "miss"]
    /\ t_pc' = [t_pc EXCEPT ![t] = "ready"]
    /\ t_timestamp' = [t_timestamp EXCEPT ![t] = 0]
    /\ t_cert' = [t_cert EXCEPT ![t] = NoCert]
    /\ UNCHANGED << max_capacity, now, SERIAL_COUNTER, minted, t_host, t_calls >>
    /\ UNCHANGED notCacheVars

CacheNext ==
    \/ Tick
    \/ \E t \in Tasks, hostname \in CacheHosts : LookupHit(t, hostname)
    \/ \E t \in Tasks, hostname \in CacheHosts : LookupMiss(t, hostname)
    \/ \E t \in Tasks : SignReadClock(t)
    \/ \E t \in Tasks : SignFetchAdd(t)
    \/ \E t \in Tasks : SignFails(t)
    \/ \E t \in Tasks : StoreInCache(t)

CacheSpec == CacheInit /\ [][CacheNext]_vars

\* ------------------------------------------------------------------------
\* The CONNECT handler (connect.rs): handle_connect, the task it spawns,
\* tunnel, tunnel_with_tls_mitm and tunnel_passthrough
\* ------------------------------------------------------------------------

COLON == << ":" >>

\* str::rfind(':'): the index of the last colon, 0 when there is none
RFindColon(x) ==
    IF \E i \in DOMAIN x : x[i] = ":"
    THEN CHOOSE i \in DOMAIN x : x[i] = ":" /\ \A j \in DOMAIN x : x[j] = ":" => j <= i
    ELSE 0

IsDigits(x) == x # << >> /\ \A i \in DOMAIN x : \E d \in DOMAIN DigitChars : DigitChars[d] = x[i]

DigitValue(c) == (CHOOSE d \in DOMAIN DigitChars : DigitChars[d] = c) - 1

\* u16::from_str on a string of digits (leading zeros are accepted); -1 when
\* the value does not fit
RECURSIVE ParseDecimal(_)
ParseDecimal(x) ==
    IF x = << >>
    THEN 0
    ELSE LET front == ParseDecimal(SubSeq(x, 1, Len(x) - 1))
         IN  IF front < 0 \/ front * 10 + DigitValue(x[Len(x)]) > 65535
             THEN -1
             ELSE front * 10 + DigitValue(x[Len(x)])

\* the port TcpStream::connect(&destination) connects to: the text after the
\* last colon read as a u16; -1 when the string is no socket address
\* (ToSocketAddrs for str), in which case connect fails
SocketPort(destination) ==
    LET i == RFindColon(destination)
        port == SubSeq(destination, i + 1, Len(destination))
    IN  IF i = 0 \/ i = 1 \/ ~IsDigits(port) THEN -1 ELSE ParseDecimal(port)

\* parse_destination
parse_destination(uri) ==
    IF ~uri.has_authority
    THEN [ok |-> FALSE, destination |-> << >>]
    ELSE IF ~Contains(uri.authority, COLON)
         THEN [ok |-> FALSE, destination |-> << >>]
         ELSE [ok |-> TRUE, destination |-> uri.authority]

\* should_intercept_tls
should_intercept_tls(destination) ==
    \/ EndsWith(destination, << ":", "4", "4", "3" >>)
    \/ EndsWith(destination, << ":", "8", "4", "4", "3" >>)

\* extract_hostname
extract_hostname(destination) ==
    LET colon_pos == RFindColon(destination)
        host == SubSeq(destination, 1, colon_pos - 1)
    IN  IF colon_pos = 0
        THEN [ok |-> FALSE, hostname |-> << >>]
        ELSE IF StartsWith(host, << "[" >>) /\ EndsWith(host, << "]" >>)
             THEN [ok |-> TRUE, hostname |-> SubSeq(host, 2, Len(host) - 1)]
             ELSE [ok |-> TRUE, hostname |-> host]

\* ConnectError::into_response
into_response(error) ==
    CASE error = "InvalidRequest" -> 400
      [] error = "ConnectionFailed" -> 502
      [] error = "TunnelError" -> 500
      [] error = "TlsError" -> 500

Authority(x) == [has_authority |-> TRUE, authority |-> x]

\* the request URIs tried: without authority, without port, with a port, an
\* IPv6 literal with and without a port
ConnectUris ==
    { [has_authority |-> FALSE, authority |-> << >>],
      Authority(<< "h" >>),
      Authority(<< "h", ":", "8", "0" >>),
      Authority(<< "h", ":", "4", "4", "3" >>),
      Authority(<< "h", ":", "8", "4", "4", "3" >>),
      Authority(<< "h", ":", "0", "4", "4", "3" >>),
      Authority(<< "[", ":", ":", "1", "]" >>),
      Authority(<< "[", ":", ":", "1", "]", ":", "8", "0" >>) }

ConnInit ==
    /\ h_uri \in ConnectUris
    /\ h_responses = << >>
    /\ h_connects = 0
    /\ h_stream = "none"
    /\ h_task = "idle"
    /\ h_branch = "none"
    /\ h_tls = FALSE
    /\ h_logged = {}
    /\ p_c2s = "idle"
    /\ p_s2c = "idle"
    /\ c_open = TRUE
    /\ s_open = TRUE
    /\ c_pending = 0
    /\ s_pending = 0
    /\ c_sent = 0
    /\ s_sent = 0
    /\ p_up = << >>
    /\ p_down = << >>
    /\ PureIdle
    /\ SessionIdle
    /\ CacheIdle
    /\ HostIdle
    /\ ParseIdle
    /\ ReadIdle
    /\ StartIdle
    /\ GaugeIdle
    /\ SizeIdle

passVars == << p_c2s, p_s2c, c_open, s_open, c_pending, s_pending, c_sent,
               s_sent, p_up, p_down >>

\* handle_connect: parse_destination fails, the error becomes the response
RejectDestination ==
    /\ h_responses = << >>
    /\ ~parse_destination(h_uri).ok
    /\ h_responses' = << into_response("InvalidRequest") >>
    /\ UNCHANGED << h_uri, h_connects, h_stream, h_task, h_branch, h_tls, h_logged >>
    /\ UNCHANGED passVars
    /\ UNCHANGED notConnVars

\* a handler that answers first and connects inside the task
ConnectFailsAfterOk ==
    /\ h_responses = << >>
    /\ parse_destination(h_uri).ok
    /\ h_connects' = h_connects + 1
    /\ h_stream' = "failed"
    /\ h_responses' = << 200 >>
    /\ h_task' = "upgrading"
    /\ UNCHANGED << h_uri, h_branch, h_tls, h_logged >>
    /\ UNCHANGED passVars
    /\ UNCHANGED notConnVars

\* handle_connect: TcpStream::connect fails (always when the destination is
\* no socket address), the error becomes the response
ConnectFails ==
    /\ h_responses = << >>
    /\ parse_destination(h_uri).ok
    /\ h_connects' = h_connects + 1
    /\ h_stream' = "failed"
    /\ h_responses' = << into_response("ConnectionFailed") >>
    /\ UNCHANGED << h_uri, h_task, h_branch, h_tls, h_logged >>
    /\ UNCHANGED passVars
    /\ UNCHANGED notConnVars

\* handle_connect: TcpStream::connect succeeds, the task is spawned on the
\* upgrade future and 200 is returned
ConnectOk ==
    /\ h_responses = << >>
    /\ parse_destination(h_uri).ok
    /\ SocketPort(parse_destination(h_uri).destination) >= 0
    /\ h_connects' = h_connects + 1
    /\ h_stream' = "connected"
    /\ h_responses' = << 200 >>
    /\ h_task' = "upgrading"
    /\ UNCHANGED << h_uri, h_branch, h_tls, h_logged >>
    /\ UNCHANGED passVars
    /\ UNCHANGED notConnVars

\* the task: the upgrade future fails; the error is logged
UpgradeFails ==
    /\ h_task = "upgrading"
    /\ h_logged' = h_logged \cup { "UpgradeError" }
    /\ h_task' = "ended"
    /\ UNCHANGED << h_uri, h_responses, h_connects, h_stream, h_branch, h_tls >>
    /\ UNCHANGED passVars
    /\ UNCHANGED notConnVars

\* a task that turns the tunnel's error into a response
TunnelMitmSurfaced ==
    /\ h_task = "upgrading"
    /\ should_intercept_tls(h_uri.authority)
    /\ h_branch' = "mitm"
    /\ h_responses' = Append(h_responses, into_response("TunnelError"))
    /\ h_task' = "ended"
    /\ UNCHANGED << h_uri, h_connects, h_stream, h_tls, h_logged >>
    /\ UNCHANGED passVars
    /\ UNCHANGED notConnVars

\* the task: the upgrade resolves and tunnel() takes the TLS branch.
\* tunnel_with_tls_mitm extracts the hostname and returns TunnelError ("not
\* yet fully implemented") without a handshake; the task logs the error.
TunnelMitm ==
    /\ h_task = "upgrading"
    /\ should_intercept_tls(h_uri.authority)
    /\ h_branch' = "mitm"
    /\ h_logged' = h_logged \cup { IF extract_hostname(h_uri.authority).ok
                                    THEN "TunnelError"
                                    ELSE "InvalidRequest" }
    /\ h_task' = "ended"
    /\ UNCHANGED << h_uri, h_responses, h_connects, h_stream, h_tls >>
    /\ UNCHANGED passVars
    /\ UNCHANGED notConnVars

\* the task: the upgrade resolves and tunnel() takes the passthrough branch;
\* both copy loops start
TunnelPassthrough ==
    /\ h_task = "upgrading"
    /\ ~should_intercept_tls(h_uri.authority)
    /\ h_branch' = "passthrough"
    /\ h_task' = "tunnel"
    /\ p_c2s' = "copying"
    /\ p_s2c' = "copying"
    /\ UNCHANGED << h_uri, h_responses, h_connects, h_stream, h_tls, h_logged >>
    /\ UNCHANGED << c_open, s_open, c_pending, s_pending, c_sent, s_sent,
                    p_up, p_down >>
    /\ UNCHANGED notConnVars

handlerVars == << h_uri, h_responses, h_connects, h_stream, h_task, h_branch, h_tls,
                  h_logged >>

\* the client sends a chunk
ClientSends ==
    /\ h_task = "tunnel"
    /\ c_open
    /\ c_sent < MaxChunks
    /\ c_sent' = c_sent + 1
    /\ c_pending' = c_pending + 1
    /\ UNCHANGED << p_c2s, p_s2c, c_open, s_open, s_pending, s_sent, p_up, p_down >>
    /\ UNCHANGED handlerVars
    /\ UNCHANGED notConnVars

\* the client closes its sending side
ClientCloses ==
    /\ h_task = "tunnel"
    /\ c_open
    /\ c_open' = FALSE
    /\ UNCHANGED << p_c2s, p_s2c, s_open, c_pending, s_pending, c_sent, s_sent,
                    p_up, p_down >>
    /\ UNCHANGED handlerVars
    /\ UNCHANGED notConnVars

\* the upstream sends a chunk
ServerSends ==
    /\ h_task = "tunnel"
    /\ s_open
    /\ s_sent < MaxChunks
    /\ s_sent' = s_sent + 1
    /\ s_pending' = s_pending + 1
    /\ UNCHANGED << p_c2s, p_s2c, c_open, s_open, c_pending, c_sent, p_up, p_down >>
    /\ UNCHANGED handlerVars
    /\ UNCHANGED notConnVars

\* the upstream closes its sending side
ServerCloses ==
    /\ h_task = "tunnel"
    /\ s_open
    /\ s_open' = FALSE
    /\ UNCHANGED << p_c2s, p_s2c, c_open, c_pending, s_pending, c_sent, s_sent,
                    p_up, p_down >>
    /\ UNCHANGED handlerVars
    /\ UNCHANGED notConnVars

\* the size of each direction's buffer
BUFFER_SIZE == 8192

\* the n chunks a read returns when `pending` of the `sent` ones are unread;
\* the k-th chunk sent is named k
ReadChunks(sent, pending, n) == [i \in 1..n |-> sent - pending + i]

\* a slip: write_all(&buffer) instead of write_all(&buffer[..n]), so that the
\* zero bytes of the rest of the buffer follow what was read
CopyUpWholeBuffer ==
    /\ p_c2s = "copying"
    /\ c_pending > 0
    /\ \E n \in 1..Min({ c_pending, BUFFER_SIZE }) :
           /\ c_pending' = c_pending - n
           /\ p_up' = p_up \o ReadChunks(c_sent, c_pending, n) \o << 0 >>
    /\ UNCHANGED << p_c2s, p_s2c, c_open, s_open, s_pending, c_sent, s_sent, p_down >>
    /\ UNCHANGED handlerVars
    /\ UNCHANGED notConnVars

\* client_to_server: read returns n bytes, which are written to the upstream
CopyUp ==
    /\ p_c2s = "copying"
    /\ c_pending > 0
    /\ \E n \in 1..Min({ c_pending, BUFFER_SIZE }) :
           /\ c_pending' = c_pending - n
           /\ p_up' = p_up \o ReadChunks(c_sent, c_pending, n)
    /\ UNCHANGED << p_c2s, p_s2c, c_open, s_open, s_pending, c_sent, s_sent, p_down >>
    /\ UNCHANGED handlerVars
    /\ UNCHANGED notConnVars

\* client_to_server: a chunk is read and the write to the upstream fails, or
\* the read fails; the loop breaks with the error
CopyUpFails ==
    /\ p_c2s = "copying"
    /\ c_pending > 0
    /\ c_pending' = c_pending - 1
    /\ p_c2s' = "err"
    /\ UNCHANGED << p_s2c, c_open, s_open, s_pending, c_sent, s_sent, p_up, p_down >>
    /\ h_logged' = h_logged \cup { "IoError" }
    /\ UNCHANGED << h_uri, h_responses, h_connects, h_stream, h_task, h_branch, h_tls >>
    /\ UNCHANGED notConnVars

\* client_to_server: read returns 0, the loop breaks with the byte count
CopyUpEof ==
    /\ p_c2s = "copying"
    /\ c_pending = 0
    /\ ~c_open
    /\ p_c2s' = "ok"
    /\ UNCHANGED << p_s2c, c_open, s_open, c_pending, s_pending, c_sent, s_sent,
                    p_up, p_down >>
    /\ UNCHANGED handlerVars
    /\ UNCHANGED notConnVars

\* server_to_client: read returns n bytes, which are written to the client
CopyDown ==
    /\ p_s2c = "copying"
    /\ s_pending > 0
    /\ \E n \in 1..Min({ s_pending, BUFFER_SIZE }) :
           /\ s_pending' = s_pending - n
           /\ p_down' = p_down \o ReadChunks(s_sent, s_pending, n)
    /\ UNCHANGED << p_c2s, p_s2c, c_open, s_open, c_pending, c_sent, s_sent, p_up >>
    /\ UNCHANGED handlerVars
    /\ UNCHANGED notConnVars

\* server_to_client: a chunk is read and the write to the client fails, or
\* the read fails; the loop breaks with the error
CopyDownFails ==
    /\ p_s2c = "copying"
    /\ s_pending > 0
    /\ s_pending' = s_pending - 1
    /\ p_s2c' = "err"
    /\ UNCHANGED << p_c2s, c_open, s_open, c_pending, c_sent, s_sent, p_up, p_down >>
    /\ h_logged' = h_logged \cup { "IoError" }
    /\ UNCHANGED << h_uri, h_responses, h_connects, h_stream, h_task, h_branch, h_tls >>
    /\ UNCHANGED notConnVars

\* server_to_client: read returns 0, the loop breaks with the byte count
CopyDownEof ==
    /\ p_s2c = "copying"
    /\ s_pending = 0
    /\ ~s_open
    /\ p_s2c' = "ok"
    /\ UNCHANGED << p_c2s, c_open, s_open, c_pending, s_pending, c_sent, s_sent,
                    p_up, p_down >>
    /\ UNCHANGED handlerVars
    /\ UNCHANGED notConnVars

\* tokio::join! completes when both loops have broken; tunnel_passthrough
\* returns Ok(()) whatever the two results are, and the task ends
PassthroughJoin ==
    /\ h_task = "tunnel"
    /\ p_c2s \in { "ok", "err" }
    /\ p_s2c \in { "ok", "err" }
    /\ h_task' = "ended"
    /\ UNCHANGED << h_uri, h_responses, h_connects, h_stream, h_branch, h_tls, h_logged >>
    /\ UNCHANGED passVars
    /\ UNCHANGED notConnVars

ConnNext ==
    \/ RejectDestination
    \/ ConnectFails
    \/ ConnectOk
    \/ UpgradeFails
    \/ TunnelMitm
    \/ TunnelPassthrough
    \/ ClientSends
    \/ ClientCloses
    \/ ServerSends
    \/ ServerCloses
    \/ CopyUp
    \/ CopyUpFails
    \/ CopyUpEof
    \/ CopyDown
    \/ CopyDownFails
    \/ CopyDownEof
    \/ PassthroughJoin

ConnSpec == ConnInit /\ [][ConnNext]_vars

\* what the runtime guarantees: a loop that can take a step takes it, and
\* the join completes once both loops have broken.  Nothing obliges the
\* client or the upstream to send or to close.
TunnelSteps ==
    \/ CopyUp
    \/ CopyUpEof
    \/ CopyDown
    \/ CopyDownEof
    \/ PassthroughJoin

ConnFairSpec == ConnSpec /\ WF_vars(TunnelSteps) /\ WF_vars(TunnelPassthrough \/ TunnelMitm)

\* ------------------------------------------------------------------------
\* validate_host on its own (strategy.rs, strategies/aws_sigv4.rs)
\* ------------------------------------------------------------------------

HostAlphabet == { "a", "A", "c", "." }

\* the suffix of the wildcard entry
WildcardBase == << "a", ".", "c" >>

WILDCARD == << "*", "." >> \o WildcardBase

\* the exact allow-list entry
ExactEntry == << "c", ".", "a" >>

\* the allow-lists tried: empty, exact only, wildcard only, both
AllowLists ==
    { << >>,
      << ExactEntry >>,
      << WILDCARD >>,
      << ExactEntry, WILDCARD >> }

HostInit ==
    /\ v_strategy \in { BearerStrategy("t", << "D" >>, hosts, TRUE, << "s" >>) :
                          hosts \in AllowLists }
    /\ v_host \in SeqsUpTo(HostAlphabet, MaxHostLen)
    /\ v_op = "idle"
    /\ v_result = FALSE
    /\ PureIdle
    /\ SessionIdle
    /\ CacheIdle
    /\ ConnIdle
    /\ ParseIdle
    /\ ReadIdle
    /\ StartIdle
    /\ GaugeIdle
    /\ SizeIdle

\* AuthStrategy::validate_host(host)
ApplyValidateHost ==
    /\ v_op = "idle"
    /\ v_result' = validate_host(v_strategy, v_host)
    /\ v_op' = "validate_host"
    /\ UNCHANGED << v_strategy, v_host >>
    /\ UNCHANGED notHostVars

HostNext ==
    \/ ApplyValidateHost

HostSpec == HostInit /\ [][HostNext]_vars

\* ------------------------------------------------------------------------
\* parse_request and serialize_request (http_parser.rs) over wire bytes
\* ------------------------------------------------------------------------

SP == " "
HT == "\t"
CR == "\r"
LF == "\n"
CRLF == << CR, LF >>

\* httparse: the bytes of a method or of a header name
TokenChars ==
    { UpperChars[i] : i \in DOMAIN UpperChars } \cup
    { LowerChars[i] : i \in DOMAIN LowerChars } \cup
    { DigitChars[i] : i \in DOMAIN DigitChars } \cup { ".", "-", "_" }

\* httparse: the bytes of a request target
UriChars == TokenChars \cup { "/", ":", "?", "=" }

\* httparse: the bytes of a header value (visible bytes, blanks, obs-text)
ValueChars == UriChars \cup { SP, HT, "xFF" }

\* [EMPTY_HEADER; 64]
MAX_HEADERS == 64

\* const MAX_HEADER_SIZE
MAX_HEADER_SIZE == 16384

\* the first index from i on whose byte is not in S; Len(buf) + 1 if none
RECURSIVE ScanWhile(_, _, _)
ScanWhile(buf, i, S) ==
    IF i <= Len(buf) /\ buf[i] \in S THEN ScanWhile(buf, i + 1, S) ELSE i

Partial == [st |-> "partial"]
Failed == [st |-> "error"]

\* httparse skips empty lines before the request line
RECURSIVE SkipEmptyLines(_, _)
SkipEmptyLines(buf, i) ==
    IF i > Len(buf) THEN Partial
    ELSE IF buf[i] = CR
         THEN IF i + 1 > Len(buf) THEN Partial
              ELSE IF buf[i + 1] = LF THEN SkipEmptyLines(buf, i + 2) ELSE Failed
         ELSE IF buf[i] = LF THEN SkipEmptyLines(buf, i + 1)
              ELSE [st |-> "ok", pos |-> i]

\* httparse: a non-empty run of bytes of S ended by a space
ScanToSpace(buf, i, S) ==
    LET j == ScanWhile(buf, i, S)
    IN  IF j > Len(buf) THEN Partial
        ELSE IF buf[j] = SP /\ j > i
             THEN [st |-> "ok", pos |-> j + 1, val |-> SubSeq(buf, i, j - 1)]
             ELSE Failed

HTTP_1 == << "H", "T", "T", "P", "/", "1", "." >>

\* httparse parse_version: HTTP/1.0 or HTTP/1.1
ParseVersion(buf, i) ==
    LET avail == SubSeq(buf, i, Min({ Len(buf), i + 7 }))
    IN  IF Len(avail) = 8
        THEN IF avail = HTTP_1 \o << "0" >> THEN [st |-> "ok", pos |-> i + 8, val |-> 0]
             ELSE IF avail = HTTP_1 \o << "1" >> THEN [st |-> "ok", pos |-> i + 8, val |-> 1]
             ELSE Failed
        ELSE IF StartsWith(HTTP_1, avail) THEN Partial ELSE Failed

\* httparse: the end of a line, CR LF or a bare LF
ParseNewline(buf, i) ==
    IF i > Len(buf) THEN Partial
    ELSE IF buf[i] = CR
         THEN IF i + 1 > Len(buf) THEN Partial
              ELSE IF buf[i + 1] = LF THEN [st |-> "ok", pos |-> i + 2] ELSE Failed
         ELSE IF buf[i] = LF THEN [st |-> "ok", pos |-> i + 1] ELSE Failed

\* httparse: blanks at the end of a header value are not part of it
RECURSIVE TrimRight(_)
TrimRight(x) ==
    IF x # << >> /\ x[Len(x)] \in { SP, HT }
    THEN TrimRight(SubSeq(x, 1, Len(x) - 1))
    ELSE x

\* httparse parse_headers: header lines up to the empty line; acc holds the
\* << name, value >> pairs read so far
RECURSIVE ParseHeaders(_, _, _)
ParseHeaders(buf, i, acc) ==
    IF i > Len(buf) THEN Partial
    ELSE IF buf[i] \in { CR, LF }
    THEN LET nl == ParseNewline(buf, i)
         IN  IF nl.st = "ok" THEN [st |-> "ok", pos |-> nl.pos, val |-> acc] ELSE nl
    ELSE IF buf[i] \notin TokenChars THEN Failed
    ELSE LET j == ScanWhile(buf, i, TokenChars)
             k == ScanWhile(buf, j + 1, { SP, HT })
             e == ScanWhile(buf, k, ValueChars)
             nl == ParseNewline(buf, e)
         IN  IF j > Len(buf) THEN Partial
             ELSE IF buf[j] # ":" THEN Failed
             ELSE IF k > Len(buf) \/ e > Len(buf) THEN Partial
             ELSE IF nl.st # "ok" THEN nl
             ELSE IF Len(acc) = MAX_HEADERS THEN Failed
             ELSE ParseHeaders(buf, nl.pos,
                               Append(acc, << SubSeq(buf, i, j - 1),
                                              TrimRight(SubSeq(buf, k, e - 1)) >>))

\* httparse Request::parse
httparse(buf) ==
    LET s0 == SkipEmptyLines(buf, 1)
        m == ScanToSpace(buf, s0.pos, TokenChars)
        u == ScanToSpace(buf, m.pos, UriChars)
        v == ParseVersion(buf, u.pos)
        nl == ParseNewline(buf, v.pos)
        h == ParseHeaders(buf, nl.pos, << >>)
    IN  IF s0.st # "ok" THEN s0
        ELSE IF m.st # "ok" THEN m
        ELSE IF u.st # "ok" THEN u
        ELSE IF v.st # "ok" THEN v
        ELSE IF nl.st # "ok" THEN nl
        ELSE IF h.st # "ok" THEN h
        ELSE [st |-> "ok", header_len |-> h.pos - 1, method |-> m.val,
              path |-> u.val, version |-> v.val, headers |-> h.val]

\* str::to_lowercase on a header name
to_lowercase(x) == [i \in DOMAIN x |-> AsciiLowerChar(x[i])]

\* the HashMap built by inserting the header lines in order: the last line of
\* a name wins
HeaderHashMap(lines) ==
    [n \in { to_lowercase(lines[i][1]) : i \in DOMAIN lines } |->
        lines[CHOOSE i \in DOMAIN lines :
                /\ to_lowercase(lines[i][1]) = n
                /\ \A j \in DOMAIN lines : to_lowercase(lines[j][1]) = n => j <= i][2]]

\* the body of parse_request on a buffer whose buffer.len() is len
ParseRequestSized(buffer, len) ==
    LET req == httparse(buffer)
    IN  IF len > MAX_HEADER_SIZE /\ ~Contains(buffer, CRLF \o CRLF)
        THEN [status |-> "error", error |-> "HeaderTooLarge"]
        ELSE IF req.st = "error" THEN [status |-> "error", error |-> "InvalidRequest"]
        ELSE IF req.st = "partial" THEN [status |-> "partial"]
        ELSE IF \E i \in DOMAIN req.headers : Contains(req.headers[i][2], << "xFF" >>)
             THEN [status |-> "error", error |-> "InvalidUtf8"]
             ELSE [status |-> "complete",
                   method |-> req.method,
                   path |-> req.path,
                   version |-> req.version,
                   headers |-> HeaderHashMap(req.headers),
                   body |-> SubSeq(buffer, req.header_len + 1, Len(buffer))]

\* parse_request
parse_request(buffer) == ParseRequestSized(buffer, Len(buffer))

\* httparse parse_code: three digits
ParseCode(buf, i) ==
    LET avail == SubSeq(buf, i, Min({ Len(buf), i + 2 }))
        digits == { DigitChars[d] : d \in DOMAIN DigitChars }
    IN  IF \E j \in DOMAIN avail : avail[j] \notin digits THEN Failed
        ELSE IF Len(avail) < 3 THEN Partial
        ELSE [st |-> "ok", pos |-> i + 3,
              val |-> 100 * DigitValue(avail[1]) + 10 * DigitValue(avail[2])
                      + DigitValue(avail[3])]

\* httparse: what follows the status code: a space and the reason phrase up
\* to the end of the line, or the end of the line at once
ParseReason(buf, i) ==
    IF i > Len(buf) THEN Partial
    ELSE IF buf[i] = SP
    THEN LET e == ScanWhile(buf, i + 1, ValueChars)
             nl == ParseNewline(buf, e)
         IN  IF nl.st = "ok"
             THEN [st |-> "ok", pos |-> nl.pos, val |-> SubSeq(buf, i + 1, e - 1)]
             ELSE nl
    ELSE LET nl == ParseNewline(buf, i)
         IN  IF nl.st = "ok" THEN [st |-> "ok", pos |-> nl.pos, val |-> << >>] ELSE nl

\* httparse Response::parse
httparse_response(buf) ==
    LET s0 == SkipEmptyLines(buf, 1)
        v == ParseVersion(buf, s0.pos)
        c == ParseCode(buf, v.pos + 1)
        r == ParseReason(buf, c.pos)
        h == ParseHeaders(buf, r.pos, << >>)
    IN  IF s0.st # "ok" THEN s0
        ELSE IF v.st # "ok" THEN v
        ELSE IF v.pos > Len(buf) THEN Partial
        ELSE IF buf[v.pos] # SP THEN Failed
        ELSE IF c.st # "ok" THEN c
        ELSE IF r.st # "ok" THEN r
        ELSE IF h.st # "ok" THEN h
        ELSE [st |-> "ok", header_len |-> h.pos - 1, version |-> v.val,
              code |-> c.val, reason |-> r.val, headers |-> h.val]

\* the body of parse_response on a buffer whose buffer.len() is len
ParseResponseSized(buffer, len) ==
    LET resp == httparse_response(buffer)
    IN  IF len > MAX_HEADER_SIZE /\ ~Contains(buffer, CRLF \o CRLF)
        THEN [status |-> "error", error |-> "HeaderTooLarge"]
        ELSE IF resp.st = "error" THEN [status |-> "error", error |-> "InvalidResponse"]
        ELSE IF resp.st = "partial" THEN [status |-> "partial"]
        ELSE IF \E i \in DOMAIN resp.headers : Contains(resp.headers[i][2], << "xFF" >>)
             THEN [status |-> "error", error |-> "InvalidUtf8"]
             ELSE [status |-> "complete",
                   version |-> resp.version,
                   code |-> resp.code,
                   reason |-> resp.reason,
                   headers |-> HeaderHashMap(resp.headers),
                   body |-> SubSeq(buffer, resp.header_len + 1, Len(buffer))]

\* parse_response
parse_response(buffer) == ParseResponseSized(buffer, Len(buffer))

\* the orders in which a HashMap with the keys S may be iterated
IterationOrders(S) ==
    { f \in [1..Cardinality(S) -> S] : \A i, j \in DOMAIN f : f[i] = f[j] => i = j }

RECURSIVE HeaderLines(_, _)
HeaderLines(headers, order) ==
    IF order = << >>
    THEN << >>
    ELSE Head(order) \o << ":", SP >> \o headers[Head(order)] \o CRLF
         \o HeaderLines(headers, Tail(order))

\* a serializer that leaves out the empty line after the headers
serialize_request_unterminated(req, order) ==
    req.method \o << SP >> \o req.path \o << SP >> \o HTTP_1
    \o << DigitChars[req.version + 1] >> \o CRLF
    \o HeaderLines(req.headers, order) \o req.body

\* serialize_request, the HashMap being iterated in the given order
serialize_request(req, order) ==
    req.method \o << SP >> \o req.path \o << SP >> \o HTTP_1
    \o << DigitChars[req.version + 1] >> \o CRLF
    \o HeaderLines(req.headers, order) \o CRLF \o req.body

\* the header lines a client may send
WireHeaderLines ==
    { << "H", ":", SP, "v", CRLF[1], CRLF[2] >>,
      << "h", ":", "w", LF >>,
      << "a", ":", SP, HT, "x", SP, CRLF[1], CRLF[2] >>,
      << "a", ":", CRLF[1], CRLF[2] >>,
      << "H", ":", SP, "xFF", LF >> }

RECURSIVE Flatten(_)
Flatten(xs) == IF xs = << >> THEN << >> ELSE Head(xs) \o Flatten(Tail(xs))

\* complete requests on the wire
WireRequests ==
    { lead \o << "G", SP, "/", SP >> \o HTTP_1 \o << v >> \o eol
      \o Flatten(hs) \o eol \o b :
        lead \in { << >>, CRLF },
        v \in { "0", "1", "2" },
        eol \in { CRLF, << LF >> },
        hs \in SeqsUpTo(WireHeaderLines, MaxHeaderLines),
        b \in { << >>, << "b" >>, << "xFF", CR, LF >> } }

\* what parse_request is handed: complete requests and their beginnings
WireBuffers ==
    UNION { { SubSeq(x, 1, n) : n \in 0..Len(x) } : x \in WireRequests }

ParseInit ==
    /\ w_buf \in WireBuffers
    /\ w_op = "idle"
    /\ w_req = [status |-> "none"]
    /\ w_wire = << >>
    /\ w_req2 = [status |-> "none"]
    /\ PureIdle
    /\ SessionIdle
    /\ CacheIdle
    /\ ConnIdle
    /\ HostIdle
    /\ ReadIdle
    /\ StartIdle
    /\ GaugeIdle
    /\ SizeIdle

\* parse_request(w_buf)
ParseRequest ==
    /\ w_op = "idle"
    /\ w_req' = parse_request(w_buf)
    /\ w_op' = "parsed"
    /\ UNCHANGED << w_buf, w_wire, w_req2 >>
    /\ UNCHANGED notParseVars

\* serialize_request(&parsed)
SerializeRequest ==
    /\ w_op = "parsed"
    /\ w_req.status = "complete"
    /\ \E order \in IterationOrders(DOMAIN w_req.headers) :
          w_wire' = serialize_request(w_req, order)
    /\ w_op' = "serialized"
    /\ UNCHANGED << w_buf, w_req, w_req2 >>
    /\ UNCHANGED notParseVars

\* parse_request(&serialized)
ReparseRequest ==
    /\ w_op = "serialized"
    /\ w_req2' = parse_request(w_wire)
    /\ w_op' = "reparsed"
    /\ UNCHANGED << w_buf, w_req, w_wire >>
    /\ UNCHANGED notParseVars

ParseNext ==
    \/ ParseRequest
    \/ SerializeRequest
    \/ ReparseRequest

ParseSpec == ParseInit /\ [][ParseNext]_vars

\* ------------------------------------------------------------------------
\* The session loop reading requests from the client stream
\* (connect_full.rs: read_http_request and the loop that calls it)
\* ------------------------------------------------------------------------

\* const MAX_BUFFER_SIZE of read_http_request
MAX_BUFFER_SIZE == 1048576

\* the requests a client sends: one without body, one with a body of two
\* bytes announced by Content-Length
GetMessage ==
    << "G", SP, "/", SP >> \o HTTP_1 \o << "1" >> \o CRLF \o CRLF

PostMessage ==
    << "P", SP, "/", SP >> \o HTTP_1 \o << "1" >> \o CRLF
    \o << "c", "o", "n", "t", "e", "n", "t", "-", "l", "e", "n", "g", "t", "h",
          ":", SP, "2" >> \o CRLF \o CRLF \o << "{", "}" >>

ReadMessages == { GetMessage, PostMessage }

\* the bytes of the first k messages
StreamUpTo(msgs, k) == Flatten(SubSeq(msgs, 1, k))

ReadInit ==
    /\ rd_msgs \in UNION { [1..k -> ReadMessages] : k \in 1..MaxMessages }
    /\ rd_sent = 0
    /\ rd_closed = FALSE
    /\ rd_read = 0
    /\ rd_buffer = << >>
    /\ rd_pc = "read"
    /\ rd_ret = "none"
    /\ rd_result = "running"
    /\ rd_requests = << >>
    /\ rd_upstream = << >>
    /\ PureIdle
    /\ SessionIdle
    /\ CacheIdle
    /\ ConnIdle
    /\ HostIdle
    /\ ParseIdle
    /\ StartIdle
    /\ GaugeIdle
    /\ SizeIdle

\* the client sends more bytes of its stream; it sends a request only after
\* the response to the one before has reached it
ClientWrites ==
    /\ rd_pc # "done"
    /\ ~rd_closed
    /\ \E n \in (rd_sent + 1)..Len(StreamUpTo(rd_msgs, Min({ Len(rd_msgs),
                                                             Len(rd_upstream) + 1 }))) :
          rd_sent' = n
    /\ UNCHANGED << rd_msgs, rd_closed, rd_read, rd_buffer, rd_pc, rd_ret,
                    rd_result, rd_requests, rd_upstream >>
    /\ UNCHANGED notReadVars

\* the client closes the stream
ClientClosesStream ==
    /\ rd_pc # "done"
    /\ ~rd_closed
    /\ rd_closed' = TRUE
    /\ UNCHANGED << rd_msgs, rd_sent, rd_read, rd_buffer, rd_pc, rd_ret,
                    rd_result, rd_requests, rd_upstream >>
    /\ UNCHANGED notReadVars

\* read_http_request: parse_request(&buffer) is complete, the request is
\* returned to the loop
ReadReturnsRequest ==
    /\ rd_pc = "read"
    /\ parse_request(rd_buffer).status = "complete"
    /\ rd_requests' = Append(rd_requests, parse_request(rd_buffer))
    /\ rd_ret' = "Some"
    /\ rd_pc' = "handle"
    /\ rd_buffer' = << >>
    /\ UNCHANGED << rd_msgs, rd_sent, rd_closed, rd_read, rd_result, rd_upstream >>
    /\ UNCHANGED notReadVars

\* read_http_request: parse_request(&buffer) fails; the loop returns the error
ReadFailsToParse ==
    /\ rd_pc = "read"
    /\ parse_request(rd_buffer).status = "error"
    /\ rd_ret' = "ErrParse"
    /\ rd_result' = "TunnelError"
    /\ rd_pc' = "done"
    /\ UNCHANGED << rd_msgs, rd_sent, rd_closed, rd_read, rd_buffer,
                    rd_requests, rd_upstream >>
    /\ UNCHANGED notReadVars

\* read_http_request: the request is incomplete and stream.read returns the
\* bytes that have arrived; a buffer beyond MAX_BUFFER_SIZE is an error
ReadBytes ==
    /\ rd_pc = "read"
    /\ parse_request(rd_buffer).status = "partial"
    /\ rd_read < rd_sent
    /\ rd_buffer' = rd_buffer \o SubSeq(StreamUpTo(rd_msgs, Len(rd_msgs)),
                                        rd_read + 1, rd_sent)
    /\ rd_read' = rd_sent
    /\ IF Len(rd_buffer') > MAX_BUFFER_SIZE
       THEN rd_ret' = "ErrParse" /\ rd_result' = "TunnelError" /\ rd_pc' = "done"
       ELSE UNCHANGED << rd_ret, rd_result, rd_pc >>
    /\ UNCHANGED << rd_msgs, rd_sent, rd_closed, rd_requests, rd_upstream >>
    /\ UNCHANGED notReadVars

\* read_http_request: the request is incomplete and stream.read returns 0.
\* With an empty buffer Ok(None) is returned and the loop breaks with Ok;
\* otherwise the error is returned.
ReadEof ==
    /\ rd_pc = "read"
    /\ parse_request(rd_buffer).status = "partial"
    /\ rd_read = rd_sent
    /\ rd_closed
    /\ rd_ret' = IF rd_buffer = << >> THEN "None" ELSE "ErrClosed"
    /\ rd_result' = IF rd_buffer = << >> THEN "Ok" ELSE "TunnelError"
    /\ rd_pc' = "done"
    /\ UNCHANGED << rd_msgs, rd_sent, rd_closed, rd_read, rd_buffer,
                    rd_requests, rd_upstream >>
    /\ UNCHANGED notReadVars

\* the rest of the loop body: the request is written to the upstream, the
\* response is written to the client, and the loop goes on
HandleAndLoop ==
    /\ rd_pc = "handle"
    /\ rd_upstream' = Append(rd_upstream, rd_requests[Len(rd_requests)])
    /\ rd_pc' = "read"
    /\ UNCHANGED << rd_msgs, rd_sent, rd_closed, rd_read, rd_buffer, rd_ret,
                    rd_result, rd_requests >>
    /\ UNCHANGED notReadVars

\* the rest of the loop body, should_close_connection holding: the loop breaks
HandleAndClose ==
    /\ rd_pc = "handle"
    /\ rd_upstream' = Append(rd_upstream, rd_requests[Len(rd_requests)])
    /\ rd_pc' = "done"
    /\ rd_result' = "Ok"
    /\ UNCHANGED << rd_msgs, rd_sent, rd_closed, rd_read, rd_buffer, rd_ret,
                    rd_requests >>
    /\ UNCHANGED notReadVars

ReadNext ==
    \/ ClientWrites
    \/ ClientClosesStream
    \/ ReadReturnsRequest
    \/ ReadFailsToParse
    \/ ReadBytes
    \/ ReadEof
    \/ HandleAndLoop
    \/ HandleAndClose

ReadSpec == ReadInit /\ [][ReadNext]_vars

\* ------------------------------------------------------------------------
\* read_http_request and read_http_response on long messages
\* (connect_full.rs 257-358).  The buffer is z_head, then z_fill bytes "a"
\* of a header value, then z_tail; the parsers scan a header value byte by
\* byte, so they are applied to the buffer with the run of "a" shortened to
\* one byte and given the true length.
\* ------------------------------------------------------------------------

READ_CHUNK_SIZE == 8192

MAX_RESPONSE_BUFFER_SIZE == 10485760

\* buffer.len()
BufferLen == Len(z_head) + z_fill + Len(z_tail)

\* the buffer with the run of value bytes shortened
ShortBuffer == z_head \o (IF z_fill > 0 THEN << "a" >> ELSE << >>) \o z_tail

\* parse_request(&buffer) or parse_response(&buffer)
ParsedBuffer ==
    IF z_kind = "request"
    THEN ParseRequestSized(ShortBuffer, BufferLen)
    ELSE ParseResponseSized(ShortBuffer, BufferLen)

\* MAX_BUFFER_SIZE of the loop that runs
BufferLimit == IF z_kind = "request" THEN MAX_BUFFER_SIZE ELSE MAX_RESPONSE_BUFFER_SIZE

\* how a long message may begin: a start line and the name of a header,
\* with or without empty lines before them
RequestHeads ==
    LET line == << "G", SP, "/", SP >> \o HTTP_1 \o << "1" >> \o CRLF \o << "h", ":" >>
    IN  { line, CRLF \o CRLF \o line }

ResponseHeads ==
    LET line == HTTP_1 \o << "1", SP, "2", "0", "0", SP, "O", "K" >> \o CRLF \o << "h", ":" >>
    IN  { line, CRLF \o CRLF \o line }

\* buffer lengths at which the size tests change their answer
Landmarks == { MAX_HEADER_SIZE - 4, MAX_HEADER_SIZE, BufferLimit }

\* the sizes of the reads tried: one byte (MaxSmallReads times), a whole
\* chunk, and what brings the buffer to a landmark
ReadSizes ==
    { n \in { READ_CHUNK_SIZE } \cup { m - BufferLen : m \in Landmarks } \cup
            (IF z_small < MaxSmallReads THEN { 1 } ELSE {}) :
        n >= 1 /\ n <= READ_CHUNK_SIZE }

SizeInit ==
    /\ z_kind \in { "request", "response" }
    /\ z_head = << >>
    /\ z_fill = 0
    /\ z_tail = << >>
    /\ z_small = 0
    /\ z_pc = "loop"
    /\ z_ret = "none"
    /\ PureIdle
    /\ SessionIdle
    /\ CacheIdle
    /\ ConnIdle
    /\ HostIdle
    /\ ParseIdle
    /\ ReadIdle
    /\ StartIdle
    /\ GaugeIdle

\* the test after buffer.extend_from_slice
AfterRead(len) ==
    IF len > BufferLimit
    THEN z_pc' = "done" /\ z_ret' = "ErrTooLarge"
    ELSE UNCHANGED << z_pc, z_ret >>

\* the message is incomplete and the read returns its first bytes
ReadHead ==
    /\ z_pc = "loop"
    /\ ParsedBuffer.status = "partial"
    /\ z_head = << >>
    /\ z_head' \in (IF z_kind = "request" THEN RequestHeads ELSE ResponseHeads)
    /\ AfterRead(Len(z_head'))
    /\ UNCHANGED << z_kind, z_fill, z_tail, z_small >>
    /\ UNCHANGED notSizeVars

\* a slip: the buffer is extended and its length is not tested
ReadValueBytesUnchecked ==
    /\ z_pc = "loop"
    /\ ParsedBuffer.status = "partial"
    /\ z_head # << >>
    /\ z_tail = << >>
    /\ \E n \in ReadSizes :
           /\ z_fill' = z_fill + n
           /\ z_small' = IF n = 1 THEN z_small + 1 ELSE z_small
    /\ UNCHANGED << z_kind, z_head, z_tail, z_pc, z_ret >>
    /\ UNCHANGED notSizeVars

\* the message is incomplete and the read returns n more bytes of the
\* header value
ReadValueBytes ==
    /\ z_pc = "loop"
    /\ ParsedBuffer.status = "partial"
    /\ z_head # << >>
    /\ z_tail = << >>
    /\ \E n \in ReadSizes :
           /\ z_fill' = z_fill + n
           /\ z_small' = IF n = 1 THEN z_small + 1 ELSE z_small
           /\ AfterRead(BufferLen + n)
    /\ UNCHANGED << z_kind, z_head, z_tail >>
    /\ UNCHANGED notSizeVars

\* the message is incomplete and the read returns the end of the header
\* block
ReadTerminator ==
    /\ z_pc = "loop"
    /\ ParsedBuffer.status = "partial"
    /\ z_head # << >>
    /\ z_tail = << >>
    /\ z_tail' = CRLF \o CRLF
    /\ AfterRead(BufferLen + 4)
    /\ UNCHANGED << z_kind, z_head, z_fill, z_small >>
    /\ UNCHANGED notSizeVars

\* the message is incomplete and the read returns 0
ReadZero ==
    /\ z_pc = "loop"
    /\ ParsedBuffer.status = "partial"
    /\ z_pc' = "done"
    /\ z_ret' = IF BufferLen = 0 THEN "None" ELSE "ErrClosed"
    /\ UNCHANGED << z_kind, z_head, z_fill, z_tail, z_small >>
    /\ UNCHANGED notSizeVars

\* the buffer parses as a complete message
ReturnsMessage ==
    /\ z_pc = "loop"
    /\ ParsedBuffer.status = "complete"
    /\ z_pc' = "done"
    /\ z_ret' = "Some"
    /\ UNCHANGED << z_kind, z_head, z_fill, z_tail, z_small >>
    /\ UNCHANGED notSizeVars

\* the parser refuses the buffer
ReturnsParseError ==
    /\ z_pc = "loop"
    /\ ParsedBuffer.status = "error"
    /\ z_pc' = "done"
    /\ z_ret' = ParsedBuffer.error
    /\ UNCHANGED << z_kind, z_head, z_fill, z_tail, z_small >>
    /\ UNCHANGED notSizeVars

SizeNext ==
    \/ ReadHead
    \/ ReadValueBytes
    \/ ReadTerminator
    \/ ReadZero
    \/ ReturnsMessage
    \/ ReturnsParseError

SizeSpec == SizeInit /\ [][SizeNext]_vars

\* ------------------------------------------------------------------------
\* The start of a MITM session (connect_full.rs 32-57):
\* CertificateAuthority::load_or_generate (tls/ca.rs), MitmAcceptor::new and
\* MitmAcceptor::accept (tls/acceptor.rs)
\* ------------------------------------------------------------------------

\* a CA is named by the session that generated it; 0 names a CA whose files
\* were on disk before the proxy started
NoCa == [cert |-> {}, key |-> {}]

NoLeaf == [hostname |-> "", issuer |-> {}, by |-> 0]

StartInit ==
    /\ \/ f_cert = {} /\ f_key = {}
       \/ f_cert = {0} /\ f_key = {0}
    /\ k_pc = [k \in Tasks |-> "start"]
    /\ k_host \in [Tasks -> CacheHosts]
    /\ k_ca = [k \in Tasks |-> NoCa]
    /\ k_before = [k \in Tasks |-> {}]
    /\ acc_cache = [k \in Tasks |-> EmptyMap]
    /\ k_leaf = [k \in Tasks |-> NoLeaf]
    /\ PureIdle
    /\ SessionIdle
    /\ CacheIdle
    /\ ConnIdle
    /\ HostIdle
    /\ ParseIdle
    /\ ReadIdle
    /\ GaugeIdle
    /\ SizeIdle

\* load_or_generate: cert_path.exists()
CheckCertExists(k) ==
    /\ k_pc[k] = "start"
    /\ k_before' = [k_before EXCEPT ![k] = { j \in Tasks : k_pc[j] = "done" }]
    /\ k_pc' = [k_pc EXCEPT ![k] = IF f_cert = {} THEN "generate" ELSE "check_key"]
    /\ UNCHANGED << f_cert, f_key, k_host, k_ca, acc_cache, k_leaf >>
    /\ UNCHANGED notStartVars

\* load_or_generate: key_path.exists()
CheckKeyExists(k) ==
    /\ k_pc[k] = "check_key"
    /\ k_pc' = [k_pc EXCEPT ![k] = IF f_key = {} THEN "generate" ELSE "load_cert"]
    /\ UNCHANGED << f_cert, f_key, k_host, k_ca, k_before, acc_cache, k_leaf >>
    /\ UNCHANGED notStartVars

\* load: fs::read_to_string(cert_path)
LoadCert(k) ==
    /\ k_pc[k] = "load_cert"
    /\ k_ca' = [k_ca EXCEPT ![k].cert = f_cert]
    /\ k_pc' = [k_pc EXCEPT ![k] = "load_key"]
    /\ UNCHANGED << f_cert, f_key, k_host, k_before, acc_cache, k_leaf >>
    /\ UNCHANGED notStartVars

\* load: fs::read_to_string(key_path); the CA signs with the key pair read
LoadKey(k) ==
    /\ k_pc[k] = "load_key"
    /\ k_ca' = [k_ca EXCEPT ![k].key = f_key]
    /\ k_pc' = [k_pc EXCEPT ![k] = "acceptor"]
    /\ UNCHANGED << f_cert, f_key, k_host, k_before, acc_cache, k_leaf >>
    /\ UNCHANGED notStartVars

\* generate: a new key pair and a self-signed certificate
Generate(k) ==
    /\ k_pc[k] = "generate"
    /\ k_ca' = [k_ca EXCEPT ![k] = [cert |-> {k}, key |-> {k}]]
    /\ k_pc' = [k_pc EXCEPT ![k] = "save_cert"]
    /\ UNCHANGED << f_cert, f_key, k_host, k_before, acc_cache, k_leaf >>
    /\ UNCHANGED notStartVars

\* generate fails: the session returns TlsError
GenerateFails(k) ==
    /\ k_pc[k] = "generate"
    /\ k_pc' = [k_pc EXCEPT ![k] = "failed"]
    /\ UNCHANGED << f_cert, f_key, k_host, k_ca, k_before, acc_cache, k_leaf >>
    /\ UNCHANGED notStartVars

\* save: fs::write(cert_path, &self.cert_pem)
SaveCert(k) ==
    /\ k_pc[k] = "save_cert"
    /\ f_cert' = k_ca[k].cert
    /\ k_pc' = [k_pc EXCEPT ![k] = "save_key"]
    /\ UNCHANGED << f_key, k_host, k_ca, k_before, acc_cache, k_leaf >>
    /\ UNCHANGED notStartVars

\* save: fs::write(key_path, &self.key_pem); load_or_generate returns the CA
SaveKey(k) ==
    /\ k_pc[k] = "save_key"
    /\ f_key' = k_ca[k].key
    /\ k_pc' = [k_pc EXCEPT ![k] = "acceptor"]
    /\ UNCHANGED << f_cert, k_host, k_ca, k_before, acc_cache, k_leaf >>
    /\ UNCHANGED notStartVars

\* MitmAcceptor::new(ca): cache: Arc::new(CertificateCache::new())
NewAcceptor(k) ==
    /\ k_pc[k] = "acceptor"
    /\ acc_cache' = [acc_cache EXCEPT ![k] = EmptyMap]
    /\ k_pc' = [k_pc EXCEPT ![k] = "accept"]
    /\ UNCHANGED << f_cert, f_key, k_host, k_ca, k_before, k_leaf >>
    /\ UNCHANGED notStartVars

\* acceptor.accept(stream, hostname): get_certificate asks the acceptor's
\* cache, which mints with the acceptor's CA on a miss; the leaf is presented
Accept(k) ==
    /\ k_pc[k] = "accept"
    /\ LET leaf == IF k_host[k] \in DOMAIN acc_cache[k]
                   THEN acc_cache[k][k_host[k]]
                   ELSE [hostname |-> k_host[k], issuer |-> k_ca[k].key, by |-> k]
       IN  /\ acc_cache' = [acc_cache EXCEPT ![k] = Insert(@, k_host[k], leaf)]
           /\ k_leaf' = [k_leaf EXCEPT ![k] = leaf]
    /\ k_pc' = [k_pc EXCEPT ![k] = "done"]
    /\ UNCHANGED << f_cert, f_key, k_host, k_ca, k_before >>
    /\ UNCHANGED notStartVars

StartNext ==
    \/ \E k \in Tasks : CheckCertExists(k)
    \/ \E k \in Tasks : CheckKeyExists(k)
    \/ \E k \in Tasks : LoadCert(k)
    \/ \E k \in Tasks : LoadKey(k)
    \/ \E k \in Tasks : Generate(k)
    \/ \E k \in Tasks : GenerateFails(k)
    \/ \E k \in Tasks : SaveCert(k)
    \/ \E k \in Tasks : SaveKey(k)
    \/ \E k \in Tasks : NewAcceptor(k)
    \/ \E k \in Tasks : Accept(k)

StartSpec == StartInit /\ [][StartNext]_vars

\* ------------------------------------------------------------------------
\* proxy_handler and the active-connections gauge (proxy.rs 159-301,
\* metrics.rs 192-199)
\* ------------------------------------------------------------------------

\* what an invocation has returned so far: nothing
NoResponse == [result |-> "none", status |-> 0, body |-> "none"]

\* ProxyError::into_response: the status code, and the error's text as body
ProxyError_into_response(error) ==
    [result |-> error,
     status |-> CASE error \in { "RequestBodyRead", "InvalidUtf8" } -> 400
                  [] error \in { "ForwardRequest", "ResponseBodyRead" } -> 502
                  [] error \in { "InvalidTargetUrl", "MissingHeader" } -> 400
                  [] error \in { "RequestBodyTooLarge", "ResponseBodyTooLarge" } -> 413,
     body |-> "message"]

GaugeInit ==
    /\ ACTIVE_CONNECTIONS = 0
    /\ a_pc = [p \in Tasks |-> "idle"]
    /\ a_calls = [p \in Tasks |-> 0]
    /\ a_result = [p \in Tasks |-> NoResponse]
    /\ PureIdle
    /\ SessionIdle
    /\ CacheIdle
    /\ ConnIdle
    /\ HostIdle
    /\ ParseIdle
    /\ ReadIdle
    /\ StartIdle
    /\ SizeIdle

\* what the request can be: readable text, longer than max_request_size,
\* not UTF-8, or without a usable target URL
RequestKinds == { "text", "too_large", "invalid_utf8", "no_target" }

\* the ProxyError the request is rejected with
RequestError(kind) ==
    CASE kind = "too_large" -> "RequestBodyTooLarge"
      [] kind = "invalid_utf8" -> "InvalidUtf8"
      [] OTHER -> "InvalidTargetUrl"

\* proxy_handler is entered: metrics::inc_active_connections()
ProxyHandlerStarts(p) ==
    /\ a_pc[p] = "idle"
    /\ a_calls[p] < MaxCalls
    /\ a_calls' = [a_calls EXCEPT ![p] = @ + 1]
    /\ ACTIVE_CONNECTIONS' = ACTIVE_CONNECTIONS + 1
    /\ a_pc' = [a_pc EXCEPT ![p] = "request"]
    /\ a_result' = [a_result EXCEPT ![p] = NoResponse]
    /\ UNCHANGED notGaugeVars

\* to_bytes, from_utf8, inject, determine_target_url and the request builder
\* succeed; the request is handed to the http client
RequestForwarded(p) ==
    /\ a_pc[p] = "request"
    /\ a_pc' = [a_pc EXCEPT ![p] = "forward"]
    /\ UNCHANGED << ACTIVE_CONNECTIONS, a_calls, a_result >>
    /\ UNCHANGED notGaugeVars

\* one of the ? operators before the forward returns RequestBodyTooLarge,
\* RequestBodyRead, InvalidUtf8 or InvalidTargetUrl
RequestRejected(p) ==
    /\ a_pc[p] = "request"
    /\ \E kind \in RequestKinds \ { "text" } :
           a_result' = [a_result EXCEPT ![p] = ProxyError_into_response(RequestError(kind))]
    /\ a_pc' = [a_pc EXCEPT ![p] = "idle"]
    /\ UNCHANGED << ACTIVE_CONNECTIONS, a_calls >>
    /\ UNCHANGED notGaugeVars

\* http_client.request fails: ForwardRequest is returned
ForwardFails(p) ==
    /\ a_pc[p] = "forward"
    /\ a_result' = [a_result EXCEPT ![p] = ProxyError_into_response("ForwardRequest")]
    /\ a_pc' = [a_pc EXCEPT ![p] = "idle"]
    /\ UNCHANGED << ACTIVE_CONNECTIONS, a_calls >>
    /\ UNCHANGED notGaugeVars

\* the upstream answers
ForwardAnswered(p) ==
    /\ a_pc[p] = "forward"
    /\ a_pc' = [a_pc EXCEPT ![p] = "response"]
    /\ UNCHANGED << ACTIVE_CONNECTIONS, a_calls, a_result >>
    /\ UNCHANGED notGaugeVars

\* the response body is too large or unreadable, the verification fails or
\* the response builder fails: ResponseBodyTooLarge or ResponseBodyRead
ResponseRejected(p) ==
    /\ a_pc[p] = "response"
    /\ \E e \in { "ResponseBodyTooLarge", "ResponseBodyRead" } :
           a_result' = [a_result EXCEPT ![p] = ProxyError_into_response(e)]
    /\ a_pc' = [a_pc EXCEPT ![p] = "idle"]
    /\ UNCHANGED << ACTIVE_CONNECTIONS, a_calls >>
    /\ UNCHANGED notGaugeVars

\* the response is built: record_http_request, dec_active_connections, Ok
ProxyHandlerReturnsOk(p) ==
    /\ a_pc[p] = "response"
    /\ ACTIVE_CONNECTIONS' = ACTIVE_CONNECTIONS - 1
    /\ a_result' = [a_result EXCEPT ![p] =
                        [result |-> "Ok", status |-> 200, body |-> "sanitized"]]
    /\ a_pc' = [a_pc EXCEPT ![p] = "idle"]
    /\ UNCHANGED << a_calls >>
    /\ UNCHANGED notGaugeVars

GaugeNext ==
    \/ \E p \in Tasks : ProxyHandlerStarts(p)
    \/ \E p \in Tasks : RequestForwarded(p)
    \/ \E p \in Tasks : RequestRejected(p)
    \/ \E p \in Tasks : ForwardFails(p)
    \/ \E p \in Tasks : ForwardAnswered(p)
    \/ \E p \in Tasks : ResponseRejected(p)
    \/ \E p \in Tasks : ProxyHandlerReturnsOk(p)

GaugeSpec == GaugeInit /\ [][GaugeNext]_vars

\* the patterns that match s starting at index st
PatternsStartingAt(pats, s, st) ==
    { k \in DOMAIN pats : Len(pats[k]) >= 1 /\ OccursAt(pats[k], s, st) }

\* replacement under leftmost-longest matching: the match taken is the one
\* that starts first, and of those starting there the longest
RECURSIVE LeftmostLongestFrom(_, _, _, _)
LeftmostLongestFrom(pats, reps, s, from) ==
    LET starts == { st \in from..Len(s) : PatternsStartingAt(pats, s, st) # {} }
    IN  IF starts = {}
        THEN SubSeq(s, from, Len(s))
        ELSE LET st == Min(starts)
                 ks == PatternsStartingAt(pats, s, st)
                 k  == CHOOSE j \in ks : \A i \in ks : Len(pats[i]) <= Len(pats[j])
             IN  SubSeq(s, from, st - 1) \o reps[k]
                 \o LeftmostLongestFrom(pats, reps, s, st + Len(pats[k]))

\* C37: inject matches the dummies leftmost-longest: where several dummies
\* match from the same position the longest one is replaced, by its own
\* real value.
C37_InjectIsLeftmostLongest ==
    fn_op = "inject" =>
        fn_out = LeftmostLongestFrom(fn_map.dummy_secrets, fn_map.real_secrets, fn_in, 1)

\* ------------------------------------------------------------------------
\* Claims about the MITM session
\* ------------------------------------------------------------------------

\* some strategy detects the request just read and refuses the session's host
HostRefused ==
    \E i \in DOMAIN strategies :
        /\ detect(strategies[i], s_req.headers, s_req.body)
        /\ ~validate_host(strategies[i], s_host)

\* C1: when a strategy that detects the request read from the client refuses
\* the upstream hostname, nothing of that request is written upstream (the
\* requests written upstream are exactly the earlier ones) and the session
\* either is still at the guard or has ended with the security violation;
\* an ended session takes no further step, so no later request is written.
C1_RefusedHostNeverReachesUpstream ==
    (s_req # NoMsg /\ HostRefused) =>
        /\ s_upstream = NoMsg
        /\ n_upstream = n_req - 1
        /\ \/ s_pc = "guard"
           \/ s_pc = "done" /\ s_result = "SecurityViolation"

C1_Witness ==
    /\ s_pc = "done"
    /\ s_result = "SecurityViolation"
    /\ n_req = 2
    /\ n_upstream = 1
    /\ s_req # NoMsg
    /\ HostRefused

\* m (a message written to the client) contains the real value r somewhere
\* in its reason phrase, a header value or its body
CarriesReal(m, r) ==
    \/ Contains(m.reason, r)
    \/ \E n \in DOMAIN m.headers : Contains(m.headers[n], r)
    \/ Contains(m.body, r)

\* C2: nothing the session writes to the client (status line, header values,
\* body) contains a real value of the secret map.
C2_ClientBytesCarryNoReal ==
    s_client # NoMsg =>
        \A i \in DOMAIN secret_map.real_secrets :
            ~CarriesReal(s_client, secret_map.real_secrets[i])

\* C3: the body written to the client is sanitize_bytes of the upstream body,
\* and a second sanitize_bytes pass over it changes nothing.
C3_ClientBodyIsVerifiedSanitizeBytes ==
    s_client # NoMsg =>
        /\ s_client.body = sanitize_bytes(secret_map, s_resp.body)
        /\ sanitize_bytes(secret_map, s_client.body) = s_client.body

\* a strategy without real credential detects its dummy in the request
DetectedWithoutCredential(req) ==
    \E i \in DOMAIN strategies :
        /\ ~strategies[i].has_token
        /\ detect(strategies[i], header_map(req.headers), from_utf8_lossy(req.body))

\* C19: a strategy whose environment variable was absent is constructed,
\* detects its dummy, and never injects: a request in which it detects its
\* dummy is failed, nothing of it is forwarded upstream.
C19_CredentialLessDetectionFailsRequest ==
    (s_req # NoMsg /\ DetectedWithoutCredential(s_req)) => s_upstream = NoMsg

\* every byte string obtained from x by replacing disjoint occurrences of
\* real values of M with [REDACTED] and keeping every other byte in place
RECURSIVE RedactedForms(_, _)
RedactedForms(M, x) ==
    IF x = << >>
    THEN { << >> }
    ELSE { << x[1] >> \o r : r \in RedactedForms(M, Tail(x)) }
         \cup UNION { { REDACTED \o r :
                          r \in RedactedForms(M, SubSeq(x, Len(M.real_secrets[i]) + 1, Len(x))) } :
                      i \in { j \in DOMAIN M.real_secrets :
                                /\ M.real_secrets[j] # << >>
                                /\ StartsWith(x, M.real_secrets[j]) } }

\* C18: response sanitization changes only the spans of the upstream body
\* that are occurrences of a real value, each replaced by [REDACTED]; every
\* other byte, valid UTF-8 or not, reaches the client unchanged and in order.
C18_OnlyRealSpansChange ==
    s_client # NoMsg => s_client.body \in RedactedForms(secret_map, s_resp.body)

CloseHeader(m) ==
    /\ "connection" \in DOMAIN m.headers
    /\ eq_ignore_ascii_case(m.headers["connection"], CLOSE)

KeepAliveHeader(m) ==
    /\ "connection" \in DOMAIN m.headers
    /\ eq_ignore_ascii_case(m.headers["connection"], KEEP_ALIVE)

\* C8: on the step that writes a response to the client, the session closes
\* if the request or the response carried Connection: close (in any case), or
\* if both messages are HTTP/1.0 and neither carries Connection: keep-alive;
\* it goes on to read the next request if neither carried Connection: close
\* and both are HTTP/1.1.
C8_ConnectionDecision ==
    [][ (s_pc = "respond" /\ n_client' = n_client + 1) =>
          LET mustClose == \/ CloseHeader(s_req)
                           \/ CloseHeader(s_resp)
                           \/ /\ s_req.version = 0
                              /\ s_resp.version = 0
                              /\ ~KeepAliveHeader(s_req)
                              /\ ~KeepAliveHeader(s_resp)
              mustStay == /\ ~CloseHeader(s_req)
                          /\ ~CloseHeader(s_resp)
                          /\ s_req.version = 1
                          /\ s_resp.version = 1
          IN  /\ mustClose => s_pc' = "done" /\ s_result' = "Ok"
              /\ mustStay => s_pc' = "read_request" ]_vars

\* ------------------------------------------------------------------------
\* Claims about the certificate authority and the certificate cache
\* ------------------------------------------------------------------------

\* C5: any two leaves sign_for_host has returned carry different serials.
C5_SerialsAreDistinct ==
    \A a \in minted : \A b \in minted : a.serial = b.serial => a = b

\* C6: the cache never holds more entries than the capacity it was built with.
C6_EntriesWithinCapacity ==
    Cardinality(DOMAIN cache) <= max_capacity

\* task t starts a get_or_create call in this step
StartsCall(t) == t_calls'[t] = t_calls[t] + 1

\* C9: a get_or_create that finds the hostname cached returns the cached leaf,
\* mints nothing and sets the entry's last_accessed to the current time; one
\* that does not find it mints exactly one leaf (no other step of the call
\* mints), inserts that leaf under the hostname and returns that same leaf.
C9_HitReturnsCachedMissMintsOne ==
    [][ \A t \in Tasks :
          /\ (StartsCall(t) /\ t_host'[t] \in DOMAIN cache) =>
                /\ t_ret'[t] = cache[t_host'[t]].certificate
                /\ t_pc'[t] = "ready"
                /\ minted' = minted
                /\ SERIAL_COUNTER' = SERIAL_COUNTER
                /\ DOMAIN cache' = DOMAIN cache
                /\ cache'[t_host'[t]] =
                       CacheEntry(cache[t_host'[t]].certificate, now)
          /\ (StartsCall(t) /\ t_host'[t] \notin DOMAIN cache) =>
                /\ t_pc'[t] = "sign_clock"
                /\ minted' = minted
                /\ cache' = cache
          /\ (t_pc[t] = "sign_clock" /\ t_pc'[t] # "sign_clock") =>
                minted' = minted
          /\ (t_pc[t] = "sign_counter" /\ t_pc'[t] = "insert") =>
                /\ Cardinality(minted' \ minted) = 1
                /\ t_cert'[t] \in minted' \ minted
                /\ t_cert'[t].hostname = t_host[t]
          /\ (t_pc[t] = "insert" /\ t_pc'[t] = "ready") =>
                /\ minted' = minted
                /\ t_host[t] \in DOMAIN cache'
                /\ cache'[t_host[t]].certificate = t_cert[t]
                /\ t_ret'[t] = t_cert[t] ]_vars

C9_Witness ==
    \E t \in Tasks :
        /\ t_last[t] = "hit"
        /\ t_pc[t] = "ready"
        /\ t_ret[t] \in minted
        /\ now > 0
        /\ t_host[t] \in DOMAIN cache
        /\ cache[t_host[t]] = CacheEntry(t_ret[t], now)

\* C10: an insert into a cache that is at capacity evicts exactly one entry,
\* one whose last_accessed is the oldest, before the new entry goes in.
C10_InsertAtCapacityEvictsOldest ==
    [][ \A t \in Tasks :
          (/\ t_pc[t] = "insert"
           /\ t_pc'[t] = "ready"
           /\ Cardinality(DOMAIN cache) >= max_capacity) =>
              \E k \in LruKeys(cache) :
                  cache' = Insert(Remove(cache, k), t_host[t],
                                  CacheEntry(t_cert[t], now)) ]_vars

\* tasks t and u made the only two calls so far, both for the same host,
\* both missed and both have returned: the two calls raced
RacedMisses(t, u) ==
    /\ t # u
    /\ TotalCalls = 2
    /\ t_calls[t] = 1 /\ t_calls[u] = 1
    /\ t_pc[t] = "ready" /\ t_pc[u] = "ready"
    /\ t_last[t] = "miss" /\ t_last[u] = "miss"
    /\ t_host[t] = t_host[u]

\* C23: when two get_or_create calls for the same absent host race, each
\* caller receives a leaf for that host signed by the CA, and once both have
\* finished the cache holds the entry for that host, with one of the two
\* leaves.
C23_RacingMissesBothServed ==
    \A t \in Tasks : \A u \in Tasks :
        RacedMisses(t, u) =>
            /\ t_ret[t] \in minted /\ t_ret[t].hostname = t_host[t]
            /\ t_ret[u] \in minted /\ t_ret[u].hostname = t_host[u]
            /\ t_host[t] \in DOMAIN cache
            /\ cache[t_host[t]].certificate \in { t_ret[t], t_ret[u] }

C23_Witness ==
    \E t \in Tasks : \E u \in Tasks :
        /\ RacedMisses(t, u)
        /\ t_ret[t] # t_ret[u]
        /\ cache[t_host[t]].certificate = t_ret[u]
        /\ Cardinality(DOMAIN cache) = 1

\* task t leaves the second lock section of get_or_create in this step
Stores(t) == t_pc[t] = "insert" /\ t_pc'[t] = "ready"

\* C24: get_or_create removes an entry from the cache only when it inserts a
\* hostname that is not cached while the cache is full; the second insert
\* of two racing misses removes no other host's entry.
C24_RemovesOnlyForNewHostWhenFull ==
    [][ \A h \in DOMAIN cache :
          h \notin DOMAIN cache' =>
              \E t \in Tasks :
                  /\ Stores(t)
                  /\ t_host[t] \notin DOMAIN cache
                  /\ Cardinality(DOMAIN cache) >= max_capacity ]_vars

HasNoPort(uri) ==
    \/ ~uri.has_authority
    \/ EndsWith(uri.authority, << "]" >>)
    \/ ~Contains(uri.authority, COLON)

Answered == h_responses # << >>

\* C13: a CONNECT request whose authority is missing or carries no port is
\* answered 400, without a TCP connection being attempted and without a
\* tunnel task being started.
C13_NoPortAnswered400 ==
    (HasNoPort(h_uri) /\ Answered) =>
        /\ h_responses = << 400 >>
        /\ h_connects = 0
        /\ h_task = "idle"

\* C14: when the TCP connection to the destination fails the request is
\* answered 502, 200 is never sent and no tunnel task is started.
C14_ConnectFailureAnswered502 ==
    h_stream = "failed" =>
        /\ h_responses = << 502 >>
        /\ h_task = "idle"
        /\ h_branch = "none"

C14_Witness ==
    /\ h_stream = "failed"
    /\ h_responses = << 502 >>
    /\ SocketPort(h_uri.authority) = 80

\* C15: once the upgrade has resolved, a destination on port 443 or 8443 is
\* tunnelled in MITM mode (TLS is terminated toward the client and the HTTP
\* session loop runs) and a destination on any other port is tunnelled in
\* passthrough mode; the port alone decides.
C15_PortDecidesTunnelMode ==
    h_branch # "none" =>
        IF SocketPort(h_uri.authority) \in { 443, 8443 }
        THEN h_branch = "mitm" /\ h_tls
        ELSE h_branch = "passthrough"

\* C16: once handle_connect has returned 200, whatever fails afterwards is
\* only logged: the response stays the single 200.
C16_FailuresAfter200OnlyLogged ==
    h_task # "idle" => h_responses = << 200 >>

C16_Witness ==
    /\ h_responses = << 200 >>
    /\ h_task = "ended"
    /\ "TunnelError" \in h_logged

\* one direction of the passthrough tunnel has read end of file
EitherSideAtEof == h_task = "tunnel" /\ (p_c2s = "ok" \/ p_s2c = "ok")

\* C17: in passthrough mode, when either side reaches end of file the whole
\* tunnel terminates, even if the other side never closes.
C17_EofOnEitherSideEndsTunnel == EitherSideAtEof ~> (h_task = "ended")

\* the first n chunks sent
FirstSent(n) == [i \in 1..n |-> i]

\* C36: in passthrough mode what is written to the upstream is what was
\* read from the client, in the same order, nothing lost, duplicated or
\* altered, and likewise from the upstream to the client: the written
\* chunks are always the first ones sent, while a direction copies they are
\* all the chunks read, and when it ends at end of file they are all sent.
C36_PassthroughCopiesVerbatim ==
    /\ p_up = FirstSent(Len(p_up))
    /\ p_down = FirstSent(Len(p_down))
    /\ p_c2s = "copying" => Len(p_up) + c_pending = c_sent
    /\ p_s2c = "copying" => Len(p_down) + s_pending = s_sent
    /\ p_c2s = "ok" => p_up = FirstSent(c_sent)
    /\ p_s2c = "ok" => p_down = FirstSent(s_sent)

C36_Witness ==
    /\ p_c2s = "ok"
    /\ p_s2c = "ok"
    /\ c_sent = MaxChunks
    /\ s_sent = MaxChunks
    /\ p_up = FirstSent(MaxChunks)
    /\ p_down = FirstSent(MaxChunks)

\* ------------------------------------------------------------------------
\* Claims about the headers of forwarded messages (checked under Spec)
\* ------------------------------------------------------------------------

\* the message carries a Content-Length that is the length of its body
ContentLengthIsBodyLength(msg) ==
    /\ "content-length" \in DOMAIN msg.headers
    /\ msg.headers["content-length"] = to_string(Len(msg.body))

\* C32: every response written to the client carries a Content-Length
\* header whose value is the byte length of the sanitized body written.
C32_ResponseContentLengthIsBodyLength ==
    s_client # NoMsg => ContentLengthIsBodyLength(s_client)

\* C33: whenever injection changed the length of the request body, the
\* request written upstream carries a Content-Length equal to the byte
\* length of the injected body.
C33_InjectedContentLengthIsBodyLength ==
    (s_upstream # NoMsg /\ Len(s_upstream.body) # Len(s_req.body))
    => ContentLengthIsBodyLength(s_upstream)

\* headers that no longer describe a body that was modified
STALE_HEADERS == { "transfer-encoding", "etag", "content-md5" }

\* C34: no request written upstream and no response written to the client
\* carries a Transfer-Encoding, ETag or Content-MD5 header.
C34_NoStaleBodyHeadersForwarded ==
    /\ s_upstream # NoMsg => DOMAIN s_upstream.headers \cap STALE_HEADERS = {}
    /\ s_client # NoMsg => DOMAIN s_client.headers \cap STALE_HEADERS = {}

\* C35: a response header named x-debug-token, x-debug-info, server-timing,
\* x-runtime or x-request-debug is never forwarded to the client; every
\* other response header is forwarded with its value sanitized.
C35_BlockedHeadersDropped ==
    s_client # NoMsg =>
        /\ DOMAIN s_client.headers \cap BLOCKED_HEADERS = {}
        /\ \A n \in DOMAIN s_resp.headers \ (BLOCKED_HEADERS \cup { "content-length" }) :
               /\ n \in DOMAIN s_client.headers
               /\ s_client.headers[n] = sanitize(secret_map, s_resp.headers[n])

\* ------------------------------------------------------------------------
\* Claims about validate_host (checked under HostSpec)
\* ------------------------------------------------------------------------

HasWildcardEntry(S) == \E i \in DOMAIN S.allowed_hosts : S.allowed_hosts[i] = WILDCARD

\* what stands before ".base" in host; empty when host does not end so
SubdomainPrefix(host, base) ==
    IF EndsWith(host, << "." >> \o base)
    THEN SubSeq(host, 1, Len(host) - Len(base) - 1)
    ELSE << >>

\* x is a dot-separated list of non-empty labels
IsLabels(x) ==
    /\ x # << >>
    /\ x[1] # "."
    /\ x[Len(x)] # "."
    /\ \A i \in 1..(Len(x) - 1) : ~(x[i] = "." /\ x[i + 1] = ".")

Dots(x) == Cardinality({ i \in DOMAIN x : x[i] = "." })

\* host is label.base
SingleLabelSubdomain(host, base) ==
    IsLabels(SubdomainPrefix(host, base)) /\ Dots(SubdomainPrefix(host, base)) = 0

\* host is label. ... .label.base with two labels or more
MultiLabelSubdomain(host, base) ==
    IsLabels(SubdomainPrefix(host, base)) /\ Dots(SubdomainPrefix(host, base)) >= 1

\* C20: a strategy whose allow-list contains the wildcard entry *.a.c
\* accepts a.c itself, every single-label subdomain x.a.c and every
\* multi-label subdomain x.y.a.c.
C20_WildcardAcceptsBaseAndSubdomains ==
    (/\ v_op = "validate_host"
     /\ HasWildcardEntry(v_strategy)
     /\ \/ v_host = WildcardBase
        \/ SingleLabelSubdomain(v_host, WildcardBase)
        \/ MultiLabelSubdomain(v_host, WildcardBase))
    => v_result

C20_Witness ==
    /\ v_op = "validate_host"
    /\ HasWildcardEntry(v_strategy)
    /\ v_host = << "c", ".", "c", ".", "a", ".", "c" >>
    /\ MultiLabelSubdomain(v_host, WildcardBase)
    /\ v_result

\* C21: an exact allow-list entry matches a hostname exactly and without
\* regard to letter case: with the exact entry alone in the allow-list,
\* validate_host accepts a host if and only if it equals the entry when
\* letter case is ignored.
C21_ExactEntryIgnoresCase ==
    (v_op = "validate_host" /\ v_strategy.allowed_hosts = << ExactEntry >>) =>
        (v_result <=> eq_ignore_ascii_case(v_host, ExactEntry))

\* host is suffix itself or ends with a dot followed by suffix
IsSuffixOrSubdomain(host, base) ==
    host = base \/ EndsWith(host, << "." >> \o base)

\* an exact entry of the allow-list names the host (letter case ignored)
NamedByExactEntry(S, host) ==
    \E i \in DOMAIN S.allowed_hosts :
        /\ S.allowed_hosts[i] # WILDCARD
        /\ eq_ignore_ascii_case(host, S.allowed_hosts[i])

\* C31: with the wildcard entry *.a.c in the allow-list, validate_host
\* accepts a host only if the host is a.c or ends with .a.c; a host that
\* merely shares the trailing characters of a.c is rejected unless an exact
\* entry names it.
C31_WildcardAcceptsOnlySuffixOrSubdomain ==
    (/\ v_op = "validate_host"
     /\ HasWildcardEntry(v_strategy)
     /\ v_result
     /\ ~NamedByExactEntry(v_strategy, v_host))
    => IsSuffixOrSubdomain(v_host, WildcardBase)

\* ------------------------------------------------------------------------
\* Claims about the HTTP parser (checked under ParseSpec)
\* ------------------------------------------------------------------------

\* C22: for a request r produced by parse_request, parsing
\* serialize_request(r) is complete and yields the method, path, version,
\* header set and body bytes of r.
C22_RequestRoundTrip ==
    w_op = "reparsed" =>
        /\ w_req2.status = "complete"
        /\ w_req2.method = w_req.method
        /\ w_req2.path = w_req.path
        /\ w_req2.version = w_req.version
        /\ w_req2.headers = w_req.headers
        /\ w_req2.body = w_req.body

C22_Witness ==
    /\ w_op = "reparsed"
    /\ w_wire # w_buf
    /\ Cardinality(DOMAIN w_req.headers) = 2
    /\ w_req.body = << "xFF", CR, LF >>
    /\ w_req2 = w_req

\* ------------------------------------------------------------------------
\* Claims about the reading of requests (checked under ReadSpec)
\* ------------------------------------------------------------------------

\* C26: body bytes that arrive in a later read than the one that completed
\* the headers are delivered as part of the same message and are never
\* parsed as the start of the next one: the i-th request the session reads
\* is the i-th request the client sent, body included.
C26_LateBodyBytesStayWithTheirMessage ==
    \A i \in DOMAIN rd_requests : rd_requests[i] = parse_request(rd_msgs[i])

\* the number of whole requests among the bytes the client has sent
WholeSent ==
    CHOOSE k \in 0..Len(rd_msgs) :
        /\ Len(StreamUpTo(rd_msgs, k)) <= rd_sent
        /\ \A j \in 0..Len(rd_msgs) : Len(StreamUpTo(rd_msgs, j)) <= rd_sent => j <= k

\* the session ended because the client closed the stream
EndedAtEof == rd_pc = "done" /\ rd_ret \in { "None", "ErrClosed" }

\* C30: when the client closes before sending any byte of the next request
\* the session ends with Ok and writes nothing more upstream; when it
\* closes after sending part of a request the session ends with TunnelError
\* and nothing of that request is written upstream.
C30_CloseBetweenOrInsideRequests ==
    EndedAtEof =>
        /\ Len(rd_upstream) = WholeSent
        /\ IF rd_sent = Len(StreamUpTo(rd_msgs, WholeSent))
           THEN rd_result = "Ok"
           ELSE rd_result = "TunnelError"

\* ------------------------------------------------------------------------
\* Claims about the start of sessions (checked under StartSpec)
\* ------------------------------------------------------------------------

\* C27: the certificate cache is shared by all sessions: a session to host h
\* that starts after another session to h has presented its leaf presents
\* that same leaf, not a newly minted one.
C27_LaterSessionReusesLeaf ==
    \A k \in Tasks : \A j \in Tasks :
        (/\ k_pc[k] = "done"
         /\ j \in k_before[k]
         /\ k_host[j] = k_host[k])
        => k_leaf[k] = k_leaf[j]

\* session k has left load_or_generate with a CA
HasCa(k) == k_pc[k] \in { "acceptor", "accept", "done" }

\* C28: whatever the interleaving of the load_or_generate calls, the CA is
\* generated once: when every call has returned, the certificate file and
\* the key file belong to the same CA and every caller holds that CA.
C28_OneCaOnDiskAndInEveryCaller ==
    (\A k \in Tasks : HasCa(k)) =>
        /\ f_cert = f_key
        /\ \A k \in Tasks : k_ca[k] = [cert |-> f_cert, key |-> f_key]

\* ------------------------------------------------------------------------
\* Claims about the active-connections gauge (checked under GaugeSpec)
\* ------------------------------------------------------------------------

InFlight == { p \in Tasks : a_pc[p] # "idle" }

\* C29: the active-connections gauge equals the number of proxy_handler
\* invocations in flight: every invocation decrements it once before it
\* returns, with Ok or with an error.
C29_GaugeCountsInvocationsInFlight ==
    ACTIVE_CONNECTIONS = Cardinality(InFlight)

\* ------------------------------------------------------------------------
\* Claims about long messages (checked under SizeSpec)
\* ------------------------------------------------------------------------

\* the session returns ConnectError::TunnelError
TunnelErrorReturned == z_ret \notin { "none", "Some", "None" }

\* C38: while reading one message the session never buffers more than 1 MiB
\* for a request or 10 MiB for a response, plus one read chunk; a buffer
\* beyond the limit ends the session with TunnelError, so the loop never
\* goes on reading with more than the limit buffered.
C38_BufferStaysWithinLimit ==
    /\ BufferLen <= BufferLimit + READ_CHUNK_SIZE
    /\ BufferLen > BufferLimit => (z_pc = "done" /\ TunnelErrorReturned)

C38_Witness ==
    /\ z_kind = "request"
    /\ BufferLen > MAX_BUFFER_SIZE
    /\ z_pc = "done"
    /\ z_ret = "ErrTooLarge"

\* the header block of the buffer has not ended
NoHeaderTerminator == z_head # << >> /\ z_tail = << >>

\* C39: parse_request accepts a request whose header block is exactly
\* 16 KiB long, and returns HeaderTooLarge, never Incomplete, for a buffer
\* longer than 16 KiB in which the header block has not ended.
C39_HeaderLimitIsSixteenKiB ==
    z_kind = "request" =>
        /\ (BufferLen = MAX_HEADER_SIZE /\ z_tail = CRLF \o CRLF)
               => ParsedBuffer.status = "complete"
        /\ (BufferLen > MAX_HEADER_SIZE /\ NoHeaderTerminator)
               => (ParsedBuffer.status = "error" /\ ParsedBuffer.error = "HeaderTooLarge")

\* C40: when the upstream response body exceeds the response size limit,
\* the client is answered with status 502 and receives no part of that
\* response body.
C40_OversizedResponseAnswered502 ==
    \A p \in Tasks :
        a_result[p].result = "ResponseBodyTooLarge" =>
            (a_result[p].status = 502 /\ a_result[p].body = "message")

\* ------------------------------------------------------------------------
\* Claims about the pure secret-map operations (checked under PureSpec)
\* ------------------------------------------------------------------------

\* the reals of a secret map, as a set
Reals(M) == { M.real_secrets[k] : k \in DOMAIN M.real_secrets }

\* no real value contains a bracket or is a part of the word REDACTED, so no
\* occurrence of a real can share bytes with a [REDACTED] literal
RealsAvoidLiteral(M) ==
    \A r \in Reals(M) :
        /\ \A i \in DOMAIN r : r[i] \notin { "[", "]" }
        /\ ~Contains(SubSeq(REDACTED, 2, Len(REDACTED) - 1), r)

\* the dummies of a secret map, as a set
Dummies(M) == { M.dummy_secrets[k] : k \in DOMAIN M.dummy_secrets }

\* the bytes a string is made of
BytesOf(x) == { x[i] : i \in DOMAIN x }

\* no real value is empty or has a byte in common with a dummy, so no
\* occurrence of a dummy can touch an injected real value
RealsApartFromDummies(M) ==
    \A r \in Reals(M) :
        /\ r # << >>
        /\ \A d \in Dummies(M) : BytesOf(r) \cap BytesOf(d) = {}

\* C11 as stated: for every secret map M and every text x, M.inject(x)
\* contains no occurrence of any dummy of M.
C11_InjectRemovesEveryDummy ==
    fn_op = "inject" =>
        \A d \in Dummies(fn_map) : ~Contains(fn_out, d)

\* C11 amended: for every secret map M in which no real value is empty or
\* shares a byte with a dummy, and every text x, M.inject(x) contains no
\* occurrence of any dummy of M.
C11_InjectRemovesDummiesApartFromReals ==
    (fn_op = "inject" /\ RealsApartFromDummies(fn_map)) =>
        \A d \in Dummies(fn_map) : ~Contains(fn_out, d)

\* C11 witness: a text holding two different dummies has been injected
C11_Witness ==
    /\ fn_op = "inject"
    /\ RealsApartFromDummies(fn_map)
    /\ Len(fn_map.dummy_secrets) = 2
    /\ \A d \in Dummies(fn_map) : Contains(fn_in, d)
    /\ \A r \in Reals(fn_map) : Contains(fn_out, r)

\* C12 as stated: for every secret map M and every text x,
\* M.sanitize(M.sanitize(x)) = M.sanitize(x).
C12_SanitizeIdempotent ==
    fn_op = "sanitize" => sanitize(fn_map, fn_out) = fn_out

\* C12 amended: for every secret map M none of whose real values contains '['
\* or ']' or is a substring of "REDACTED", and every text x,
\* M.sanitize(M.sanitize(x)) = M.sanitize(x).
C12_SanitizeIdempotentAvoidingLiteral ==
    (fn_op = "sanitize" /\ RealsAvoidLiteral(fn_map)) =>
        sanitize(fn_map, fn_out) = fn_out

\* C12 witness: a text holding a real value has been sanitized to something
\* else
C12_Witness ==
    /\ fn_op = "sanitize"
    /\ RealsAvoidLiteral(fn_map)
    /\ \E r \in Reals(fn_map) : Contains(fn_in, r)
    /\ fn_out # fn_in
    /\ Contains(fn_out, REDACTED)

\* C4 as stated: for every secret map M and every byte string b, the output of
\* M.sanitize_bytes(b) contains no occurrence of any real value of M.
C4_SanitizeBytesRemovesEveryReal ==
    fn_op = "sanitize_bytes" =>
        \A r \in Reals(fn_map) : ~Contains(fn_out, r)

\* C4 amended: for every secret map M none of whose real values contains '['
\* or ']' or is a substring of "REDACTED", and for every byte string b (valid
\* UTF-8 or not), the output of M.sanitize_bytes(b) contains no occurrence of
\* any real value of M.
C4_SanitizeBytesRemovesRealsAvoidingLiteral ==
    (fn_op = "sanitize_bytes" /\ RealsAvoidLiteral(fn_map)) =>
        \A r \in Reals(fn_map) : ~Contains(fn_out, r)

\* C4 witness: a non-UTF-8 input holding a real value has been sanitized
C4_Witness ==
    /\ fn_op = "sanitize_bytes"
    /\ RealsAvoidLiteral(fn_map)
    /\ \E r \in Reals(fn_map) : Contains(fn_in, r)
    /\ \E i \in DOMAIN fn_in : fn_in[i] = "xFF"
    /\ Contains(fn_out, REDACTED)

====
